---- MODULE Spec2Model ----
(***************************************************************************)
(* A model of the cartconf Cartesian configuration parser: the tree        *)
(* builder (Parser._parse), the filters (filters.py), the operations on    *)
(* dictionaries (tokens.py, utils.py) and the variant enumerator           *)
(* (Parser.get_dicts_joined / get_dicts_plain / join_filters).             *)
(*                                                                         *)
(* Strings are sequences of one-character strings, so that prefixes,       *)
(* suffixes and concatenations are computed as the code computes them.     *)
(* A configuration text is given as the sequence of statements the lexer   *)
(* delivers to Parser._parse.                                              *)
(***************************************************************************)
EXTENDS Integers, Sequences, FiniteSets, TLC

(***************************************************************************)
(* Strings and sequences                                                   *)
(***************************************************************************)
Empty == <<>>

RECURSIVE Flatten(_)
\* "".join(parts)
Flatten(parts) ==
    IF parts = <<>> THEN <<>> ELSE Head(parts) \o Flatten(Tail(parts))

RECURSIVE JoinWith(_, _)
\* sep.join(parts)
JoinWith(sep, parts) ==
    IF parts = <<>> THEN <<>>
    ELSE IF Len(parts) = 1 THEN parts[1]
    ELSE parts[1] \o sep \o JoinWith(sep, Tail(parts))

Dot == <<".">>

\* s.endswith(suf)
EndsWith(s, suf) ==
    /\ Len(s) >= Len(suf)
    /\ SubSeq(s, Len(s) - Len(suf) + 1, Len(s)) = suf

\* s[i:].startswith(pat), i counted from 1
StartsAt(s, i, pat) ==
    /\ i + Len(pat) - 1 <= Len(s)
    /\ SubSeq(s, i, i + Len(pat) - 1) = pat

\* s.find(pat): the first position (from 1) where pat occurs in s, 0 if none
Find(s, pat) ==
    LET hits == {i \in 1..Len(s) : StartsAt(s, i, pat)}
    IN IF hits = {} THEN 0 ELSE CHOOSE i \in hits : \A j \in hits : i <= j

\* s.split(pat)[0]
SplitFirst(s, pat) ==
    LET i == Find(s, pat) IN IF i = 0 THEN s ELSE SubSeq(s, 1, i - 1)

\* x has been computed: a loop names the value it carries before it goes on,
\* as the statements of the source run one after the other
Evaluated(x) == x = x

\* the list whose i-th element is f[i]
List(f) == SubSeq(f, 1, Len(f))

\* seq[::-1]
Reverse(seq) == List([i \in 1..Len(seq) |-> seq[Len(seq) + 1 - i]])

\* x in seq
InSeq(x, seq) == \E i \in 1..Len(seq) : seq[i] = x

(***************************************************************************)
(* Label (parser.py)                                                       *)
(***************************************************************************)
\* Label(name) has no axis: var = <<>>;  Label(var, name) is "(var=name)"
Label(var, name) == [var |-> var, name |-> name]

\* Label.long_name
LongName(l) ==
    IF l.var # <<>> THEN <<"(">> \o l.var \o <<"=">> \o l.name \o <<")">>
    ELSE l.name

\* Label.__eq__(self, o): asymmetric, decided by whether o carries an axis
LabelEq(self, o) ==
    IF o.var # <<>> THEN LongName(self) = LongName(o) ELSE self.name = o.name

\* Label.__ne__(self, o)
LabelNe(self, o) ==
    IF o.var # <<>> THEN LongName(self) # LongName(o) ELSE self.name # o.name

\* o in ctx_set / o in labels: the stored label is compared with the one sought
InLabels(o, labels) == \E l \in labels : LabelEq(l, o)

\* set(ctx)
SetOf(seq) == {seq[i] : i \in 1..Len(seq)}

\* ctx.index(o), from 1
IndexOf(o, ctx) ==
    CHOOSE i \in 1..Len(ctx) :
        /\ LabelEq(ctx[i], o)
        /\ \A j \in 1..(i - 1) : ~LabelEq(ctx[j], o)

(***************************************************************************)
(* Filters (filters.py)                                                    *)
(***************************************************************************)
RECURSIVE MatchLoop(_, _, _, _)
\* the while loop of _match_adjacent; i and k count from 0 as in the code
MatchLoop(block, ctx, i, k) ==
    IF i >= Len(ctx) THEN k
    ELSE
      LET reset == k > 0 /\ LabelNe(ctx[i + 1], block[k + 1])
          i1 == IF reset THEN i - (k - 1) ELSE i
          k1 == IF reset THEN 0 ELSE k
      IN IF LabelEq(ctx[i1 + 1], block[k1 + 1])
         THEN LET k2 == k1 + 1
              IN IF k2 >= Len(block) THEN k2
                 ELSE IF ~InLabels(block[k2 + 1], SetOf(ctx)) THEN k2
                 ELSE MatchLoop(block, ctx, i1 + 1, k2)
         ELSE MatchLoop(block, ctx, i1 + 1, k1)

\* _match_adjacent(block, ctx, ctx_set): how many labels of block match
MatchAdjacent(block, ctx) ==
    IF ~InLabels(block[1], SetOf(ctx)) THEN 0
    ELSE IF Len(block) = 1 THEN 1
    ELSE IF ~InLabels(block[2], SetOf(ctx))
         THEN (IF LabelEq(ctx[Len(ctx)], block[1]) THEN 1 ELSE 0)
    ELSE MatchLoop(block, ctx, IndexOf(block[1], ctx) - 1, 0)

\* a _might_match_adjacent that looks for every label of the block among
\* the descendant labels, the matched ones included
AllBelow(block, ctx, labels) ==
    \A j \in 1..Len(block) : InLabels(block[j], labels)

\* _might_match_adjacent(block, ctx, ctx_set, descendant_labels)
MightMatchAdjacent(block, ctx, labels) ==
    LET matched == MatchAdjacent(block, ctx)
    IN \A j \in (matched + 1)..Len(block) : InLabels(block[j], labels)

\* Filter.match(ctx, ctx_set)
FilterMatch(filt, ctx) ==
    \E w \in 1..Len(filt) :
        \A b \in 1..Len(filt[w]) :
            MatchAdjacent(filt[w][b], ctx) = Len(filt[w][b])

\* Filter.might_match(ctx, ctx_set, descendant_labels)
FilterMightMatch(filt, ctx, labels) ==
    \E w \in 1..Len(filt) :
        \A b \in 1..Len(filt[w]) :
            MightMatchAdjacent(filt[w][b], ctx, labels)

(***************************************************************************)
(* Dictionaries                                                            *)
(*                                                                         *)
(* A dictionary is the sequence of its items in insertion order.  A key is *)
(* a plain string (tup = FALSE, p = <<key>>) or a suffix tuple (tup =      *)
(* TRUE, p = <<key, suffix1, ...>>).  A value is a string, a list of       *)
(* strings (dep) or a map from strings to strings (the file maps).         *)
(***************************************************************************)
PKey(k) == [tup |-> FALSE, p |-> <<k>>]
TKey(parts) == [tup |-> TRUE, p |-> parts]

StrV(s) == [t |-> "str", s |-> s, l |-> <<>>, m |-> <<>>]
ListV(l) == [t |-> "list", s |-> <<>>, l |-> l, m |-> <<>>]
MapV(m) == [t |-> "map", s |-> <<>>, l |-> <<>>, m |-> m]

\* key in d
DHas(d, k) == \E i \in 1..Len(d) : d[i].k = k

DIndex(d, k) == CHOOSE i \in 1..Len(d) : d[i].k = k

\* d[key]
DGet(d, k) == d[DIndex(d, k)].v

\* d[key] = v
DSet(d, k, v) ==
    IF DHas(d, k) THEN [d EXCEPT ![DIndex(d, k)].v = v]
    ELSE Append(d, [k |-> k, v |-> v])

\* del d[key] / d.pop(key)
DPop(d, k) ==
    LET i == DIndex(d, k) IN SubSeq(d, 1, i - 1) \o SubSeq(d, i + 1, Len(d))

RECURSIVE DUpdate(_, _)
\* d.update(other)
DUpdate(d, other) ==
    CASE Evaluated(d) ->
        IF other = <<>> THEN d
        ELSE DUpdate(DSet(d, Head(other).k, Head(other).v), Tail(other))

\* two dictionaries compare equal in Python: same keys, same values
DictEq(d1, d2) ==
    /\ Len(d1) = Len(d2)
    /\ \A i \in 1..Len(d1) : DHas(d2, d1[i].k) /\ DGet(d2, d1[i].k) = d1[i].v

\* two lists of dictionaries compare equal
DictsEq(s1, s2) ==
    /\ Len(s1) = Len(s2)
    /\ \A i \in 1..Len(s1) : DictEq(s1[i], s2[i])

kName == <<"n", "a", "m", "e">>
kShortname == <<"s", "h", "o", "r", "t", "n", "a", "m", "e">>
kDep == <<"d", "e", "p">>
kNameMapFile ==
    <<"_", "n", "a", "m", "e", "_", "m", "a", "p", "_", "f", "i", "l", "e">>
kShortNameMapFile ==
    <<"_", "s", "h", "o", "r", "t", "_", "n", "a", "m", "e", "_",
      "m", "a", "p", "_", "f", "i", "l", "e">>

\* constants.reserved_keys
reserved_keys == {kName, kShortname, kDep, kNameMapFile, kShortNameMapFile}

\* key in reserved_keys: a suffix tuple is never a member
IsReserved(k) == ~k.tup /\ k.p[1] \in reserved_keys

(***************************************************************************)
(* drop_suffixes (utils.py)                                                *)
(***************************************************************************)
\* k[0] if isinstance(k, tuple) else k
GenName(k) == k.p[1]

\* the parts of the key joined as they stand: the slice [::-1] left out
Unreversed(k) == Flatten(k.p)

\* key[:1] + key[1:][::-1], joined
MergedKey(k) == Flatten(<<k.p[1]>> \o Reverse(Tail(k.p)))

\* the for loop over d that clears can_drop_all_suffixes_for_this_key
CanDropAll(d, key) ==
    \A i \in 1..Len(d) :
        GenName(d[i].k) = GenName(key) => DGet(d, key) = d[i].v

\* one iteration of the loop of drop_suffixes, for the key at position i of d
DropOne(d, skipdups, flat, i) ==
    LET key == d[i].k
        gen == PKey(GenName(key))
    IN IF IsReserved(key) \/ ~key.tup THEN flat
       ELSE IF skipdups /\ DHas(d, gen) /\ DGet(d, gen) = DGet(d, key)
            THEN DPop(flat, key)
       ELSE LET new_key == IF skipdups /\ CanDropAll(d, key)
                           THEN PKey(key.p[1])
                           ELSE PKey(MergedKey(key))
                val == DGet(flat, key)
            IN DSet(DPop(flat, key), new_key, val)

RECURSIVE DropLoop(_, _, _, _)
DropLoop(d, skipdups, flat, i) ==
    CASE Evaluated(flat) ->
        IF i > Len(d) THEN flat
        ELSE DropLoop(d, skipdups, DropOne(d, skipdups, flat, i), i + 1)

\* drop_suffixes(d, skipdups)
drop_suffixes(d, skipdups) == DropLoop(d, skipdups, d, 1)

(***************************************************************************)
(* _substitution (tokens.py)                                               *)
(***************************************************************************)
Quote(s) == <<"'">> \o s \o <<"'">>

RECURSIVE ReprItems(_)
ReprItems(m) ==
    IF m = <<>> THEN <<>>
    ELSE <<Quote(m[1][1]) \o <<":", " ">> \o Quote(m[1][2])>> \o ReprItems(Tail(m))

\* str(val) of a dictionary value
StrOf(v) ==
    IF v.t = "str" THEN v.s
    ELSE IF v.t = "list"
         THEN <<"[">> \o JoinWith(<<",", " ">>, List([i \in 1..Len(v.l) |-> Quote(v.l[i])]))
              \o <<"]">>
    ELSE <<"{">> \o JoinWith(<<",", " ">>, ReprItems(v.m)) \o <<"}">>

\* match_substitute.search(value, start): the leftmost "${", one character
\* at least, then the first "}"; <<0, 0>> when there is none.  Positions
\* count from 1; the result is <<first, last>> of the whole match.
SubstSearch(value, start) ==
    LET closes(i) == {j \in (i + 3)..Len(value) : value[j] = "}"}
        opens == {i \in start..Len(value) :
                     StartsAt(value, i, <<"$", "{">>) /\ closes(i) # {}}
    IN IF opens = {} THEN <<0, 0>>
       ELSE LET i == CHOOSE x \in opens : \A y \in opens : x <= y
                j == CHOOSE x \in closes(i) : \A y \in closes(i) : x <= y
            IN <<i, j>>

RECURSIVE SubstOn(_, _, _, _)
\* a loop that does not stop at a name that d_flat lacks: it copies that
\* occurrence as it stands and goes on with the next one
SubstOn(value, d_flat, start, st) ==
    LET m == SubstSearch(value, start)
    IN IF m[1] = 0 THEN st \o SubSeq(value, start, Len(value))
       ELSE LET name == PKey(SubSeq(value, m[1] + 2, m[2] - 1))
            IN SubstOn(value, d_flat, m[2] + 1,
                       st \o SubSeq(value, start, m[1] - 1)
                          \o IF DHas(d_flat, name)
                             THEN StrOf(DGet(d_flat, name))
                             ELSE SubSeq(value, m[1], m[2]))

RECURSIVE SubstLoop(_, _, _, _)
\* the while loop of _substitution; start counts from 1
SubstLoop(value, d_flat, start, st) ==
    LET m == SubstSearch(value, start)
    IN IF m[1] = 0 THEN st \o SubSeq(value, start, Len(value))
       ELSE LET name == PKey(SubSeq(value, m[1] + 2, m[2] - 1))
            IN IF ~DHas(d_flat, name)
               THEN st \o SubSeq(value, start, Len(value))
               ELSE SubstLoop(value, d_flat, m[2] + 1,
                              st \o SubSeq(value, start, m[1] - 1)
                                 \o StrOf(DGet(d_flat, name)))

\* _substitution(value, d)
Substitution(value, d) ==
    IF InSeq("$", value) THEN SubstLoop(value, drop_suffixes(d, TRUE), 1, <<>>)
    ELSE value

(***************************************************************************)
(* Sizes and bounds (utils.py)                                             *)
(***************************************************************************)
DigitVal(c) ==
    CASE c = "0" -> 0 [] c = "1" -> 1 [] c = "2" -> 2 [] c = "3" -> 3
      [] c = "4" -> 4 [] c = "5" -> 5 [] c = "6" -> 6 [] c = "7" -> 7
      [] c = "8" -> 8 [] c = "9" -> 9 [] OTHER -> -1

IsDigits(s) == Len(s) > 0 /\ \A i \in 1..Len(s) : DigitVal(s[i]) >= 0

RECURSIVE NatOf(_)
NatOf(s) == IF s = <<>> THEN 0 ELSE 10 * NatOf(SubSeq(s, 1, Len(s) - 1)) + DigitVal(s[Len(s)])

RECURSIVE Pow(_, _)
Pow(b, e) == IF e = 0 THEN 1 ELSE b * Pow(b, e - 1)

\* re.findall("([BbKkMmGgTt])", s) is not empty
IsUnit(c) == c \in {"B", "b", "K", "k", "M", "m", "G", "g", "T", "t"}
HasUnit(s) == \E i \in 1..Len(s) : IsUnit(s[i])

\* orders[unit.upper()], as a power of 1024
UnitOrder(c) ==
    CASE c \in {"B", "b"} -> 0 [] c \in {"K", "k"} -> 1 [] c \in {"M", "m"} -> 2
      [] c \in {"G", "g"} -> 3 [] c \in {"T", "t"} -> 4

\* float(s) for a decimal numeral "d", "d.d", "d." or ".d": <<TRUE, n, scale>>
\* with value n / 10^scale; <<FALSE, 0, 0>> stands for ValueError
FloatParts(ip, fp) ==
    IF IsDigits(ip \o fp) THEN <<TRUE, NatOf(ip \o fp), Len(fp)>>
    ELSE <<FALSE, 0, 0>>

FloatAt(s, dot) ==
    FloatParts(IF dot = 0 THEN s ELSE SubSeq(s, 1, dot - 1),
               IF dot = 0 THEN <<>> ELSE SubSeq(s, dot + 1, Len(s)))

FloatOf(s) == FloatAt(s, Find(s, Dot))

\* int(f * orders[order]) for the float f and the unit order
Scaled(f, order) ==
    IF f[1] THEN <<TRUE, (f[2] * Pow(1024, order)) \div Pow(10, f[3])>>
    ELSE <<FALSE, 0>>

\* convert_data_size(size, default_suffix): <<TRUE, bytes>>, or <<FALSE, 0>>
\* when the code raises
convert_data_size(size, default_suffix) ==
    IF size = <<>> THEN <<FALSE, 0>>
    ELSE Scaled(FloatOf(IF IsUnit(size[Len(size)])
                        THEN SubSeq(size, 1, Len(size) - 1) ELSE size),
                UnitOrder(IF IsUnit(size[Len(size)])
                          THEN size[Len(size)] ELSE default_suffix))

\* int(s) for an unsigned numeral; <<FALSE, 0>> stands for ValueError
IntOf(s) == IF IsDigits(s) THEN <<TRUE, NatOf(s)>> ELSE <<FALSE, 0>>

\* the last lines of compare_string, on the two converted values
Compared(value1, value2) ==
    IF ~value1[1] \/ ~value2[1] THEN <<FALSE, 0>>
    ELSE IF value1[2] < value2[2] THEN <<TRUE, -1>>
    ELSE IF value1[2] = value2[2] THEN <<TRUE, 0>>
    ELSE <<TRUE, 1>>

\* both values of compare_string: converted as data sizes when either string
\* holds a unit letter, as integers otherwise
Values(strs, sized) ==
    [i \in 1..2 |-> IF sized THEN convert_data_size(strs[i], "M") ELSE IntOf(strs[i])]

\* compare_string(str1, str2) on two dictionary values: <<TRUE, c>> with c
\* in {-1, 0, 1}, and <<FALSE, 0>> when the code raises (a value that is no
\* number, or no string at all)
CompareValues(values) == Compared(values[1], values[2])

compare_string(v1, v2) ==
    IF v1.t # "str" \/ v2.t # "str" THEN <<FALSE, 0>>
    ELSE CompareValues(Values(<<v1.s, v2.s>>, HasUnit(v1.s) \/ HasUnit(v2.s)))

sMax == <<"_", "m", "a", "x">>
sMin == <<"_", "m", "i", "n">>
sFixed == <<"_", "f", "i", "x", "e", "d">>

\* tmp_dict[tmp_key] = d[key]
TmpSet(tmp, tmp_key, v) == [tmp EXCEPT !.d = DSet(@, tmp_key, v)]

\* the test of a "_max" (sign 1) or "_min" (sign -1) key once compare_string
\* has returned cmp
BoundCompared(tmp, tmp_key, v, cmp, sign) ==
    IF ~cmp[1] THEN [tmp EXCEPT !.err = TRUE]
    ELSE IF cmp[2] = sign THEN TmpSet(tmp, tmp_key, v)
    ELSE tmp

\* the body of the "_max" (sign 1) and "_min" (sign -1) branches
Bounded(d, tmp, tmp_key, v, sign) ==
    IF ~DHas(d, tmp_key) THEN TmpSet(tmp, tmp_key, v)
    ELSE BoundCompared(tmp, tmp_key, v, compare_string(DGet(d, tmp_key), v), sign)

\* one iteration of the first loop of apply_suffix_bounds, for the key ks at
\* position i of d; tmp is [d |-> tmp_dict, err |-> raised]
BoundsKey(d, tmp, ks, v) ==
    IF EndsWith(ks, sMax) \/ EndsWith(ks, sMin)
    THEN Bounded(d, tmp,
                 PKey(SplitFirst(ks, IF EndsWith(ks, sMax) THEN sMax ELSE sMin)), v,
                 IF EndsWith(ks, sMax) THEN 1 ELSE -1)
    ELSE IF EndsWith(ks, sFixed) THEN TmpSet(tmp, PKey(SplitFirst(ks, sFixed)), v)
    ELSE tmp

BoundsOne(d, tmp, i) ==
    IF d[i].k.tup THEN tmp ELSE BoundsKey(d, tmp, d[i].k.p[1], d[i].v)

RECURSIVE BoundsLoop(_, _, _)
BoundsLoop(d, tmp, i) ==
    IF i > Len(d) \/ tmp.err THEN tmp
    ELSE BoundsLoop(d, BoundsOne(d, tmp, i), i + 1)

\* the second loop of apply_suffix_bounds
BoundsApply(d, tmp) ==
    IF tmp.err THEN [d |-> d, err |-> TRUE]
    ELSE [d |-> DUpdate(d, tmp.d), err |-> FALSE]

\* apply_suffix_bounds(d): [d |-> the dictionary after the call, err |->
\* whether compare_string raised]
apply_suffix_bounds(d) == BoundsApply(d, BoundsLoop(d, [d |-> <<>>, err |-> FALSE], 1))

(***************************************************************************)
(* Operations (tokens.py)                                                  *)
(***************************************************************************)
OperatorClasses ==
    {"LSet", "LAppend", "LPrepend", "LLazySet", "LRegExpSet", "LRegExpAppend",
     "LRegExpPrepend", "LDel", "LApplyPreDict", "LUpdateFileMap", "Suffix"}

\* an operation or a filter, as it stands in a node's content
Obj(cls, name, value) ==
    [cls |-> cls, name |-> name, value |-> value, pd |-> <<>>, dest |-> <<>>,
     filt |-> <<>>, content |-> <<>>]

\* re.compile("%s$" % name).match(keystr), for a name that is a literal or ".*"
RegexMatch(name, keystr) ==
    IF name = <<".", "*">> THEN TRUE ELSE name = keystr

\* the keys of d that the regular expression of name selects
RegexKeys(name, d) ==
    {i \in 1..Len(d) : ~IsReserved(d[i].k) /\ RegexMatch(name, Flatten(d[i].k.p))}

\* LSet.apply_to_dict
LSetApply(op, d) ==
    IF op.name \notin reserved_keys
    THEN DSet(d, PKey(op.name), StrV(Substitution(op.value, d)))
    ELSE d

\* LAppend.apply_to_dict
LAppendApply(op, d) ==
    LET k == PKey(op.name)
        old == IF DHas(d, k) THEN DGet(d, k).s ELSE <<>>
    IN IF op.name \notin reserved_keys
       THEN DSet(d, k, StrV(old \o Substitution(op.value, d)))
       ELSE d

\* LPrepend.apply_to_dict
LPrependApply(op, d) ==
    LET k == PKey(op.name)
        old == IF DHas(d, k) THEN DGet(d, k).s ELSE <<>>
    IN IF op.name \notin reserved_keys
       THEN DSet(d, k, StrV(Substitution(op.value, d) \o old))
       ELSE d

\* LLazySet.apply_to_dict
LLazySetApply(op, d) ==
    IF op.name \notin reserved_keys /\ ~DHas(d, PKey(op.name))
    THEN DSet(d, PKey(op.name), StrV(Substitution(op.value, d)))
    ELSE d

\* LRegExpSet.apply_to_dict
LRegExpSetApply(op, d) ==
    LET value == Substitution(op.value, d)
        hit == RegexKeys(op.name, d)
    IN List([i \in 1..Len(d) |->
                IF i \in hit THEN [d[i] EXCEPT !.v = StrV(value)] ELSE d[i]])

\* LRegExpAppend.apply_to_dict
LRegExpAppendApply(op, d) ==
    LET value == Substitution(op.value, d)
        hit == RegexKeys(op.name, d)
    IN List([i \in 1..Len(d) |->
                IF i \in hit THEN [d[i] EXCEPT !.v = StrV(d[i].v.s \o value)] ELSE d[i]])

\* LRegExpPrepend.apply_to_dict
LRegExpPrependApply(op, d) ==
    LET value == Substitution(op.value, d)
        hit == RegexKeys(op.name, d)
    IN List([i \in 1..Len(d) |->
                IF i \in hit THEN [d[i] EXCEPT !.v = StrV(value \o d[i].v.s)] ELSE d[i]])

\* LDel.apply_to_dict
LDelApply(op, d) ==
    LET keys_to_del == {d[i].k : i \in RegexKeys(op.name, d)}
    IN SelectSeq(d, LAMBDA item : item.k \notin keys_to_del)

\* an operation that leaves the dictionary as it is: an apply_to_dict whose
\* body was lost
Untouched(op, d) == d

\* LApplyPreDict.apply_to_dict
LApplyPreDictApply(op, d) == DUpdate(d, op.pd)

\* LUpdateFileMap.apply_to_dict: op.value is the short name of the file
LUpdateFileMapApply(op, d) ==
    LET dest == PKey(op.dest)
        old == IF DHas(d, dest) THEN DGet(d, dest).m ELSE <<>>
        at == {i \in 1..Len(old) : old[i][1] = op.value}
        new == IF at = {} THEN Append(old, <<op.value, op.name>>)
               ELSE List([i \in 1..Len(old) |->
                            IF i \in at THEN <<op.value, op.name \o Dot \o old[i][2]>>
                            ELSE old[i]])
    IN DSet(d, dest, MapV(new))

RECURSIVE SuffixLoop(_, _, _, _)
\* the loop of Suffix.apply_to_dict over the keys of d.copy()
SuffixLoop(op, keys, d, i) ==
    CASE Evaluated(d) ->
        IF i > Len(keys) THEN d
        ELSE LET key == keys[i]
                 new_key == TKey(key.p \o <<op.value>>)
             IN IF IsReserved(key) THEN SuffixLoop(op, keys, d, i + 1)
                ELSE SuffixLoop(op, keys,
                                DSet(DPop(d, key), new_key, DGet(d, key)), i + 1)

\* Suffix.apply_to_dict
SuffixApply(op, d) == SuffixLoop(op, List([i \in 1..Len(d) |-> d[i].k]), d, 1)

\* op.apply_to_dict(d)
ApplyToDict(op, d) ==
    CASE op.cls = "LSet" -> LSetApply(op, d)
      [] op.cls = "LAppend" -> LAppendApply(op, d)
      [] op.cls = "LPrepend" -> LPrependApply(op, d)
      [] op.cls = "LLazySet" -> LLazySetApply(op, d)
      [] op.cls = "LRegExpSet" -> LRegExpSetApply(op, d)
      [] op.cls = "LRegExpAppend" -> LRegExpAppendApply(op, d)
      [] op.cls = "LRegExpPrepend" -> LRegExpPrependApply(op, d)
      [] op.cls = "LDel" -> LDelApply(op, d)
      [] op.cls = "LApplyPreDict" -> LApplyPreDictApply(op, d)
      [] op.cls = "LUpdateFileMap" -> LUpdateFileMapApply(op, d)
      [] op.cls = "Suffix" -> SuffixApply(op, d)

(***************************************************************************)
(* Content entries and the filter classes (filters.py)                     *)
(*                                                                         *)
(* A content entry is the tuple (filename, linenum, obj) of the code.      *)
(***************************************************************************)
Entry(fn, ln, obj) == [fn |-> fn, ln |-> ln, obj |-> obj]

\* the name StrReader gives to a configuration read from a string
StrFile == <<"<", "s", "t", "r", "i", "n", "g", ">">>

FilterObj(cls, filt, content) ==
    [cls |-> cls, name |-> <<>>, value |-> <<>>, pd |-> <<>>, dest |-> <<>>,
     filt |-> filt, content |-> content]

\* isinstance(obj, LOperators)
IsOperator(obj) == obj.cls \in OperatorClasses

\* isinstance(o, cls) among the filter classes
IsInstance(ocls, cls) ==
    \/ ocls = cls
    \/ ocls = "NegativeCondition" /\ cls = "OnlyFilter"
    \/ ocls = "Condition" /\ cls = "NoFilter"

\* self.filter == o.filter: lists compared element by element, each label
\* of self asked whether it equals the label of o
FilterListEq(f, g) ==
    /\ Len(f) = Len(g)
    /\ \A w \in 1..Len(f) :
        /\ Len(f[w]) = Len(g[w])
        /\ \A b \in 1..Len(f[w]) :
            /\ Len(f[w][b]) = Len(g[w][b])
            /\ \A j \in 1..Len(f[w][b]) : LabelEq(f[w][b][j], g[w][b][j])

\* NoOnlyFilter.__eq__(self, o); an operation is equal to itself only
ObjEq(self, o) ==
    /\ ~IsOperator(self)
    /\ ~IsOperator(o)
    /\ IsInstance(o.cls, self.cls)
    /\ FilterListEq(self.filt, o.filt)

\* t in content, for a tuple t that holds a filter
TupleIn(t, content) ==
    \E i \in 1..Len(content) :
        /\ content[i].fn = t.fn
        /\ content[i].ln = t.ln
        /\ ObjEq(content[i].obj, t.obj)

\* the classes that inherit the methods of OnlyFilter / of NoFilter
OnlyKind(obj) == obj.cls \in {"OnlyFilter", "NegativeCondition"}
NoKind(obj) == obj.cls \in {"NoFilter", "Condition"}

\* obj.requires_action(ctx, ctx_set, labels)
requires_action(obj, ctx, labels) ==
    IF OnlyKind(obj) THEN ~FilterMightMatch(obj.filt, ctx, labels)
    ELSE FilterMatch(obj.filt, ctx)

\* an is_irrelevant that answers False whatever the context: no filter and
\* no conditional block is ever dropped as irrelevant
StillRelevant(obj, ctx, labels) == FALSE

\* obj.is_irrelevant(ctx, ctx_set, labels)
is_irrelevant(obj, ctx, labels) ==
    IF OnlyKind(obj) THEN FilterMatch(obj.filt, ctx)
    ELSE ~FilterMightMatch(obj.filt, ctx, labels)

\* a might_pass that answers False whatever the context: a failed case
\* that condemns every later visit of the node
NeverPass(obj, failed_ctx, ctx, labels) == FALSE

\* OnlyFilter.might_pass
OnlyMightPass(obj, failed_ctx, ctx, labels) ==
    IF \E w \in 1..Len(obj.filt) : \E b \in 1..Len(obj.filt[w]) :
           MatchAdjacent(obj.filt[w][b], ctx)
               > MatchAdjacent(obj.filt[w][b], failed_ctx)
    THEN FilterMightMatch(obj.filt, ctx, labels)
    ELSE FALSE

\* NoFilter.might_pass
NoMightPass(obj, failed_ctx, ctx, labels) ==
    IF \E w \in 1..Len(obj.filt) : \E b \in 1..Len(obj.filt[w]) :
           MatchAdjacent(obj.filt[w][b], ctx)
               < MatchAdjacent(obj.filt[w][b], failed_ctx)
    THEN ~FilterMatch(obj.filt, ctx)
    ELSE FALSE

\* obj.might_pass(failed_ctx, failed_ctx_set, ctx, ctx_set, labels)
FilterMightPass(obj, failed_ctx, ctx, labels) ==
    IF OnlyKind(obj) THEN OnlyMightPass(obj, failed_ctx, ctx, labels)
    ELSE NoMightPass(obj, failed_ctx, ctx, labels)

(***************************************************************************)
(* join_names (parser.py)                                                  *)
(***************************************************************************)
\* [x[0] == x[1] for x in zip(n1, n2)].index(0): the first position (from
\* 0) where the two names differ, -1 when zip() ends before they differ
\* and index() raises ValueError
FirstDiff(n1, n2) ==
    LET m == IF Len(n1) < Len(n2) THEN Len(n1) ELSE Len(n2)
        diff == {i \in 1..m : n1[i] # n2[i]}
    IN IF diff = {} THEN -1
       ELSE (CHOOSE i \in diff : \A j \in diff : i <= j) - 1

\* s.split(".")
RECURSIVE SplitDots(_)
SplitDots(s) ==
    LET i == Find(s, Dot)
    IN IF i = 0 THEN <<s>>
       ELSE <<SubSeq(s, 1, i - 1)>> \o SplitDots(SubSeq(s, i + 1, Len(s)))

\* how many characters of n the regular expression "^" + cp consumes, -1
\* when it does not match: cp is made of literal characters, of "." that
\* stands for any character and of the group brackets "(" and ")" that
\* consume nothing
RECURSIVE ReMatch(_, _, _, _)
ReMatch(cp, n, i, j) ==
    IF i > Len(cp) THEN j - 1
    ELSE IF cp[i] \in {"(", ")"} THEN ReMatch(cp, n, i + 1, j)
    ELSE IF j > Len(n) THEN -1
    ELSE IF cp[i] = "." \/ cp[i] = n[j] THEN ReMatch(cp, n, i + 1, j + 1)
    ELSE -1

\* re.sub(r"^" + cp, "", n)
ReSubPrefix(cp, n) ==
    LET k == ReMatch(cp, n, 1, 1)
    IN IF k <= 0 THEN n ELSE SubSeq(n, k + 1, Len(n))

\* join_names(n1, n2): [ok |-> FALSE] stands for the ValueError of index()
join_names(n1, n2) ==
    LET k == FirstDiff(n1, n2)
        common_prefix == SubSeq(n1, 1, k)
        parts == SplitDots(common_prefix)
        cp == JoinWith(Dot, SubSeq(parts, 1, Len(parts) - 1))
        p1 == ReSubPrefix(cp, n1)
        p2 == ReSubPrefix(cp, n2)
    IN IF k < 0 THEN [ok |-> FALSE, s |-> <<>>]
       ELSE IF cp # <<>> THEN [ok |-> TRUE, s |-> cp \o p1 \o p2]
       ELSE [ok |-> TRUE, s |-> p1 \o Dot \o p2]

(***************************************************************************)
(* Nodes (parser.py)                                                       *)
(*                                                                         *)
(* The nodes live in a heap, a sequence indexed by node identity, because  *)
(* a node is the child of every variant of the variants block that follows *)
(* it.  labels is a set: membership in a Python set of labels and in the   *)
(* list it was built from agree, whatever the set dropped as a duplicate.  *)
(***************************************************************************)
\* Node.__init__
NewNode ==
    [var_name |-> <<>>, name |-> <<>>, dep |-> <<>>, content |-> <<>>,
     children |-> <<>>, labels |-> {}, append_to_shortname |-> FALSE,
     failed_cases |-> <<>>, default |-> FALSE]

\* str(label) for every label of a list, joined by "."
DottedLong(labels) ==
    JoinWith(Dot, List([i \in 1..Len(labels) |-> LongName(labels[i])]))

\* label.name for every label of a list, joined by "."
DottedShort(labels) ==
    JoinWith(Dot, List([i \in 1..Len(labels) |-> labels[i].name]))

(***************************************************************************)
(* Statements: what the lexer delivers to Parser._parse for one line of    *)
(* the configuration and the block indented under it                       *)
(***************************************************************************)
Stmt(kind, cls, name, value, filt, body) ==
    [kind |-> kind, cls |-> cls, name |-> name, value |-> value, filt |-> filt,
     body |-> body, meta |-> <<>>, variants |-> <<>>]

\* key OP value
SOp(cls, name, value) == Stmt("op", cls, name, value, <<>>, <<>>)
\* only FILTER / no FILTER / join FILTER
SOnly(filt) == Stmt("only", "", <<>>, <<>>, filt, <<>>)
SNo(filt) == Stmt("no", "", <<>>, <<>>, filt, <<>>)
SJoin(filt) == Stmt("join", "", <<>>, <<>>, filt, <<>>)
\* FILTER: block   and   !FILTER: block
SCond(filt, body) == Stmt("cond", "", <<>>, <<>>, filt, body)
SNotCond(filt, body) == Stmt("ncond", "", <<>>, <<>>, filt, body)
\* suffix SUFFIX
SSuffix(value) == Stmt("suffix", "", <<>>, value, <<>>, <<>>)
\* del KEY
SDel(name) == Stmt("del", "", name, <<>>, <<>>, <<>>)
\* variants NAME [default=...]: followed by its "- variant:" blocks; meta is
\* the list of the names given by [default=...]
SVariants(var_name, meta, variants) ==
    [kind |-> "variants", cls |-> "", name |-> var_name, value |-> <<>>,
     filt |-> <<>>, body |-> <<>>, meta |-> meta, variants |-> variants]

\* - [@]NAME: DEPS  and the block under it; name is the list of identifiers
Variant(dflt, name, deps, body) ==
    [dflt |-> dflt, name |-> name, deps |-> deps, body |-> body]

\* the tokens of a variant name, dots included
RawName(name) ==
    List([i \in 1..(2 * Len(name) - 1) |->
             IF i % 2 = 1 THEN name[(i + 1) \div 2] ELSE Dot])

\* cmd_tokens(tokens1, tokens2): zip() stops at the shorter list
cmd_tokens(tokens1, tokens2) ==
    LET m == IF Len(tokens1) < Len(tokens2) THEN Len(tokens1) ELSE Len(tokens2)
    IN \A i \in 1..m : tokens1[i] = tokens2[i]

\* list.remove(x)
ListRemove(l, x) ==
    LET i == CHOOSE i \in 1..Len(l) : l[i] = x /\ \A j \in 1..(i - 1) : l[j] # x
    IN SubSeq(l, 1, i - 1) \o SubSeq(l, i + 1, Len(l))

RECURSIVE MetaDefaultLoop(_, _, _, _)
\* for wd in meta["default"]: if cmd_tokens(wd, raw_name): is_default = True;
\* meta["default"].remove(wd).  The list shrinks under the iterator, whose
\* position i (from 0) still advances.
MetaDefaultLoop(meta, raw_name, i, is_default) ==
    IF i >= Len(meta) THEN [meta |-> meta, is_default |-> is_default]
    ELSE IF cmd_tokens(meta[i + 1], raw_name)
         THEN MetaDefaultLoop(ListRemove(meta, meta[i + 1]), raw_name, i + 1, TRUE)
    ELSE MetaDefaultLoop(meta, raw_name, i + 1, is_default)

(***************************************************************************)
(* Parser._parse (parser.py)                                               *)
(*                                                                         *)
(* The state of one call: the heap h, the node being filled (0 when the    *)
(* call fills the content of a conditional block), its content so far,     *)
(* pre_dict, the pending suffix, the number ln of the last line read and   *)
(* the error raised, if any.  Lines are numbered as StrReader numbers a    *)
(* text with one statement per line.  p holds the options of the Parser.   *)
(***************************************************************************)
NoError == "none"

PState(h, node, content, ln) ==
    [h |-> h, node |-> node, content |-> content, pre_dict |-> <<>>,
     suffix |-> <<>>, ln |-> ln, err |-> NoError]

\* the content so far is the content of the node in the heap
Store(st) ==
    IF st.node = 0 THEN st
    ELSE [st EXCEPT !.h = [st.h EXCEPT ![st.node].content = st.content]]

\* apply_predict(lexer, node, pre_dict) at line ln
apply_predict(st, ln) ==
    LET predict == [Obj("LApplyPreDict", <<>>, <<>>) EXCEPT !.pd = st.pre_dict]
    IN [st EXCEPT !.content = Append(@, Entry(StrFile, ln, predict)),
                  !.pre_dict = <<>>]

\* if pre_dict: pre_dict = apply_predict(lexer, node, pre_dict)
FlushPreDict(st, ln) == IF st.pre_dict # <<>> THEN apply_predict(st, ln) ELSE st

\* the end of a block with the pending suffix put before the content
SuffixAhead(st, endln) ==
    Store([FlushPreDict(st, endln) EXCEPT !.content = st.suffix \o @])

\* the LEndBlock branch: the line that ends the block has been looked at,
\* its number is endln (-1 at the end of the text)
EndBlock(st, endln) ==
    LET st1 == FlushPreDict(st, endln)
    IN Store([st1 EXCEPT !.content = @ \o st1.suffix])

\* the number of the line after line ln, as get_next_line reports it
NextLine(follows, ln) == IF follows THEN ln + 1 ELSE -1

\* the LIdentifier branch with an operator: identifier OP value.  A set
\* without "$" goes to pre_dict, and so does any operation without "$" on a
\* key that pre_dict holds; the others flush pre_dict and join the content.
ParseOp(s, st) ==
    LET ln == st.ln + 1
        op == Obj(s.cls, s.name, s.value)
        d_nin_val == ~InSeq("$", s.value)
    IN IF \/ s.cls = "LSet" /\ d_nin_val
          \/ st.pre_dict # <<>> /\ DHas(st.pre_dict, PKey(s.name)) /\ d_nin_val
       THEN [st EXCEPT !.ln = ln, !.pre_dict = ApplyToDict(op, @)]
       ELSE [FlushPreDict([st EXCEPT !.ln = ln], ln)
                EXCEPT !.content = Append(@, Entry(StrFile, ln, op))]

\* the LOnly, LNo and LJoin branches
ParseFilterStmt(s, st) ==
    LET ln == st.ln + 1
        cls == CASE s.kind = "only" -> "OnlyFilter"
                 [] s.kind = "no" -> "NoFilter"
                 [] s.kind = "join" -> "JoinFilter"
        st1 == apply_predict([st EXCEPT !.ln = ln], ln)
    IN [st1 EXCEPT !.content = Append(@, Entry(StrFile, ln, FilterObj(cls, s.filt, <<>>)))]

\* the LSuffix branch
ParseSuffix(s, st) ==
    LET ln == st.ln + 1
        st1 == FlushPreDict([st EXCEPT !.ln = ln], ln)
    IN [st1 EXCEPT !.suffix = <<Entry(StrFile, ln, Obj("Suffix", <<>>, s.value))>>]

\* the LDel branch
ParseDel(s, st) ==
    LET ln == st.ln + 1
        st1 == apply_predict([st EXCEPT !.ln = ln], ln)
    IN [st1 EXCEPT !.content = Append(@, Entry(StrFile, ln, Obj("LDel", s.name, <<>>)))]

RECURSIVE ParseStmts(_, _, _, _)
RECURSIVE ParseOne(_, _, _, _)
RECURSIVE ParseCond(_, _, _, _)
RECURSIVE VariantLoop(_, _, _, _, _, _)
RECURSIVE ParseVariants(_, _, _, _)

\* the while loop of _parse over the statements of one block; follows
\* tells whether the text goes on after the block
ParseStmts(p, stmts, follows, st) ==
    IF st.err # NoError THEN Store(st)
    ELSE IF stmts = <<>> THEN EndBlock(st, NextLine(follows, st.ln))
    ELSE ParseStmts(p, Tail(stmts), follows,
                    ParseOne(p, Head(stmts), Len(stmts) > 1 \/ follows, st))

\* one turn of the loop, by the token that opens the line
ParseOne(p, s, follows, st) ==
    CASE s.kind = "op" -> ParseOp(s, st)
      [] s.kind \in {"only", "no", "join"} -> ParseFilterStmt(s, st)
      [] s.kind \in {"cond", "ncond"} -> ParseCond(p, s, follows, st)
      [] s.kind = "suffix" -> ParseSuffix(s, st)
      [] s.kind = "del" -> ParseDel(s, st)
      [] s.kind = "variants" -> ParseVariants(p, s, follows, st)

\* the end of the LColon and LNotCond branches: inner is the state in which
\* the recursive call that parsed the block returned
CondDone(s, follows, st, inner) ==
    LET endln == NextLine(follows, inner.ln)
        cls == IF s.kind = "cond" THEN "Condition" ELSE "NegativeCondition"
        cond == FilterObj(cls, s.filt, inner.content)
    IN IF inner.err # NoError THEN [st EXCEPT !.err = inner.err]
       ELSE [apply_predict([st EXCEPT !.ln = inner.ln], endln)
                EXCEPT !.content = Append(@, Entry(StrFile, endln, cond))]

\* the LColon and LNotCond branches: the block is parsed into the content
\* of a Condition / NegativeCondition, which is then appended
ParseCond(p, s, follows, st) ==
    CondDone(s, follows, st,
             ParseStmts(p, s.body, follows, PState(st.h, 0, <<>>, st.ln + 1)))

\* is_default after the loop over meta["default"], and what is left of it
MetaDefault(vst, v) ==
    IF vst.meta_with_default
    THEN MetaDefaultLoop(vst.meta, RawName(v.name), 0, v.dflt)
    ELSE [meta |-> vst.meta, is_default |-> v.dflt]

\* the LVariant branch after the recursive call that parsed the block of
\* variant v returned in state st3: node3 is named and marked, and becomes
\* a child of node4; endln is the number of the line after the block
VariantDone(p, var_name, v, vst, st3, endln, md) ==
    LET node3 == st3.node
        name == List([j \in 1..Len(v.name) |-> Label(var_name, v.name[j])])
        sets_default == /\ md.is_default
                        /\ ~vst.already_default
                        /\ var_name \notin p.expand_defaults
        map1 == [Obj("LUpdateFileMap", DottedLong(name), StrFile)
                    EXCEPT !.dest = kNameMapFile]
        map2 == [Obj("LUpdateFileMap", DottedShort(name), StrFile)
                    EXCEPT !.dest = kShortNameMapFile]
        n3 == [st3.h[node3] EXCEPT
                  !.var_name = IF var_name # <<>> THEN var_name ELSE @,
                  !.name = name,
                  !.dep = v.deps,
                  !.default = IF sets_default THEN TRUE ELSE @,
                  !.append_to_shortname = ~md.is_default,
                  !.content = @ \o <<Entry(StrFile, endln, map1),
                                     Entry(StrFile, endln, map2)>>]
        front == n3.default /\ p.defaults
        n4 == [st3.h[vst.node4] EXCEPT
                  !.children = IF front THEN <<node3>> \o @ ELSE Append(@, node3),
                  !.labels = @ \cup n3.labels \cup SetOf(name)]
    IN IF st3.err # NoError THEN [vst EXCEPT !.h = st3.h, !.err = st3.err]
       ELSE [vst EXCEPT !.h = [st3.h EXCEPT ![node3] = n3, ![vst.node4] = n4],
                        !.meta = md.meta,
                        !.already_default = @ \/ sets_default,
                        !.ln = st3.ln]

\* the block of variant v parsed into a node that starts without labels
BareBlock(p, var_name, v, nfollows, vst) ==
    ParseStmts(p, v.body, nfollows,
               PState(Append(vst.h, [NewNode EXCEPT !.children = <<vst.node>>]),
                      Len(vst.h) + 1,
                      IF var_name # <<>>
                      THEN <<Entry(StrFile, vst.ln + 1,
                                   Obj("LSet", var_name, JoinWith(Dot, v.name)))>>
                      ELSE <<>>,
                      vst.ln + 1))

\* the block of variant v, parsed into a new node that has the node the
\* variants stand on as its child; the state in which the call returns
VariantBlock(p, var_name, v, nfollows, vst) ==
    ParseStmts(p, v.body, nfollows,
               PState(Append(vst.h, [NewNode EXCEPT !.children = <<vst.node>>,
                                                    !.labels = vst.h[vst.node].labels]),
                      Len(vst.h) + 1,
                      IF var_name # <<>>
                      THEN <<Entry(StrFile, vst.ln + 1,
                                   Obj("LSet", var_name, JoinWith(Dot, v.name)))>>
                      ELSE <<>>,
                      vst.ln + 1))

\* one variant with its block, from the state st3 in which the block ended
VariantEnd(p, var_name, v, nfollows, vst, st3) ==
    VariantDone(p, var_name, v, vst, st3, NextLine(nfollows, st3.ln),
                MetaDefault(vst, v))

\* the while loop of the LVariant branch, from variant i of vs on.  vst
\* carries the heap, the node the variants stand on, node4, what is left of
\* meta["default"], already_default, the last line read, the error.
VariantLoop(p, var_name, vs, i, follows, vst) ==
    IF i > Len(vs) \/ vst.err # NoError THEN vst
    ELSE VariantLoop(p, var_name, vs, i + 1, follows,
             VariantEnd(p, var_name, vs[i], i < Len(vs) \/ follows, vst,
                 VariantBlock(p, var_name, vs[i], i < Len(vs) \/ follows, vst)))

\* the end of the LVariants branch: vst is the state after the last variant
VariantsDone(st, st1, node4, vst) ==
    IF st.node = 0
    THEN [st EXCEPT !.err = "variants is not allowed inside a conditional block"]
    ELSE IF vst.err # NoError THEN [st1 EXCEPT !.h = vst.h, !.err = vst.err]
    ELSE IF vst.meta # <<>>
         THEN [st1 EXCEPT !.h = vst.h, !.err = "Missing default variant"]
    ELSE [st1 EXCEPT !.h = vst.h, !.node = node4, !.content = <<>>,
                     !.ln = vst.ln]

\* the variants under the header line hln, on the state st1 that holds the
\* content of the node so far
VariantsFrom(p, s, follows, st, st1, hln) ==
    VariantsDone(st, st1, Len(st1.h) + 1,
        VariantLoop(p, s.name, s.variants, 1, follows,
            [h |-> Append(st1.h, NewNode), node |-> st.node,
             node4 |-> Len(st1.h) + 1, meta |-> s.meta,
             meta_with_default |-> s.meta # <<>>,
             already_default |-> FALSE, ln |-> hln, err |-> NoError]))

\* the LVariants branch (the header line) and the LVariant branch (the
\* variants under it)
ParseVariants(p, s, follows, st) ==
    VariantsFrom(p, s, follows, st, Store(FlushPreDict(st, st.ln + 2)), st.ln + 1)

\* the parser after _parse returned in state st, or raised
Parsed(p, st) ==
    IF st.err # NoError THEN [p EXCEPT !.h = st.h, !.err = st.err]
    ELSE [p EXCEPT !.h = st.h, !.node = st.node]

\* Parser.parse_string(cfgstr) on a parser [h, node, ...]: the new root and
\* heap, or the error raised
parse_string(p, stmts) ==
    Parsed(p, ParseStmts(p, stmts, FALSE,
                         PState(p.h, p.node, p.h[p.node].content, 0)))

(***************************************************************************)
(* get_dicts_plain: its local functions (parser.py)                        *)
(***************************************************************************)
\* Parser.num_failed_cases
num_failed_cases == 5

AttributeError == "AttributeError"
ValueError == "ValueError"

\* the lists process_content fills: new_content, new_external_filters,
\* new_internal_filters; ok is its return value
PCStart ==
    [ok |-> TRUE, new_content |-> <<>>, new_external_filters |-> <<>>,
     new_internal_filters |-> <<>>, err |-> NoError]

\* failed_filters.append(t); return False
PCFail(acc, which, t) ==
    IF which = "external"
    THEN [acc EXCEPT !.ok = FALSE, !.new_external_filters = Append(@, t)]
    ELSE [acc EXCEPT !.ok = FALSE, !.new_internal_filters = Append(@, t)]

RECURSIVE process_content(_, _, _, _, _, _)
\* process_content(content, failed_filters) from entry i on; which names
\* the list passed as failed_filters.  A JoinFilter has no requires_action:
\* reaching one raises AttributeError.
process_content(content, i, which, ctx, labels, acc) ==
    IF ~Evaluated(acc) \/ i > Len(content) THEN acc
    ELSE
      LET t == content[i]
          obj == t.obj
          kept == [acc EXCEPT !.new_content = Append(@, t)]
          inner == process_content(obj.content, 1, "internal", ctx, labels, acc)
      IN IF IsOperator(obj)
         THEN process_content(content, i + 1, which, ctx, labels, kept)
         ELSE IF obj.cls = "JoinFilter"
              THEN [acc EXCEPT !.ok = FALSE, !.err = AttributeError]
         ELSE IF requires_action(obj, ctx, labels)
              THEN IF obj.cls \in {"OnlyFilter", "NoFilter"}
                   THEN PCFail(acc, which, t)
                   ELSE IF inner.err # NoError THEN inner
                   ELSE IF ~inner.ok THEN PCFail(inner, which, t)
                   ELSE process_content(content, i + 1, which, ctx, labels, inner)
         ELSE IF is_irrelevant(obj, ctx, labels)
              THEN process_content(content, i + 1, which, ctx, labels, acc)
         ELSE process_content(content, i + 1, which, ctx, labels, kept)

\* a failed case: (ctx, ctx_set, new_external_filters, new_internal_filters)
FailedCase(ctx, external, internal) ==
    [ctx |-> ctx, external |-> external, internal |-> internal]

\* might_pass(failed_ctx, failed_ctx_set, failed_external_filters,
\* failed_internal_filters), in a visit of a node with the given content
\* of its own, inherited content, context and labels
might_pass(fc, node_content, content, ctx, labels) ==
    LET all_content == content \o node_content
        failed == fc.external \o fc.internal
    IN IF \E i \in 1..Len(failed) : ~TupleIn(failed[i], all_content) THEN TRUE
       ELSE IF \E i \in 1..Len(fc.external) :
                  ~FilterMightPass(fc.external[i].obj, fc.ctx, ctx, labels)
            THEN FALSE
       ELSE IF \E i \in 1..Len(fc.internal) : ~TupleIn(fc.internal[i], node_content)
            THEN TRUE
       ELSE IF \E i \in 1..Len(fc.internal) :
                  ~FilterMightPass(fc.internal[i].obj, fc.ctx, ctx, labels)
            THEN FALSE
       ELSE TRUE

\* an add_failed_case that never drops a record
KeepAll(failed_cases, fc) == <<fc>> \o failed_cases

\* add_failed_case(): appendleft, then pop() beyond num_failed_cases
add_failed_case(failed_cases, fc) ==
    LET l == <<fc>> \o failed_cases
    IN IF Len(l) > num_failed_cases THEN SubSeq(l, 1, Len(l) - 1) ELSE l

\* del node.failed_cases[i]; node.failed_cases.appendleft(failed_case)
MoveToFront(failed_cases, i) ==
    <<failed_cases[i]>> \o SubSeq(failed_cases, 1, i - 1)
        \o SubSeq(failed_cases, i + 1, Len(failed_cases))

\* the dependencies a node adds:  for d in node.dep: for dd in d: ...
NodeDeps(ctx, dep) ==
    Flatten(List([w \in 1..Len(dep) |->
                     List([b \in 1..Len(dep[w]) |-> DottedLong(ctx \o dep[w][b])])]))

\* the dictionary of a leaf before the operations are applied
LeafDict(name, dep, shortname) ==
    << [k |-> PKey(kName), v |-> StrV(name)],
       [k |-> PKey(kDep), v |-> ListV(dep)],
       [k |-> PKey(kShortname), v |-> StrV(DottedShort(shortname))] >>

RECURSIVE ApplyRange(_, _, _, _)
\* the operations new_content[lo..hi] applied to d in their order
ApplyRange(new_content, lo, hi, d) ==
    CASE Evaluated(d) ->
        IF lo > hi THEN d
        ELSE IF lo = hi THEN ApplyToDict(new_content[lo].obj, d)
        ELSE LET mid == (lo + hi) \div 2
             IN ApplyRange(new_content, mid + 1, hi,
                           ApplyRange(new_content, lo, mid, d))

\* for _, _, op in new_content: op.apply_to_dict(d)
ApplyContent(new_content, i, d) == ApplyRange(new_content, i, Len(new_content), d)

(***************************************************************************)
(* The enumerator: get_dicts_joined, get_dicts_plain, join_filters         *)
(*                                                                         *)
(* The three functions are generators that call one another.  A run is a   *)
(* machine m = [h, parent_generator, stack, out, err]: the stack holds the *)
(* suspended generator frames, the caller below the callee, out the        *)
(* dictionaries delivered to the consumer of the outermost generator.      *)
(* A frame is [kind, pc, ...locals]: kind "J" for get_dicts_joined, "P"    *)
(* for get_dicts_plain, "F" for join_filters.                              *)
(*                                                                         *)
(* The machine also keeps a record of the run that the code does not: hits *)
(* counts the visits that a failed case cut short, leaves lists the        *)
(* dictionaries as they were synthesised at the leaves before any          *)
(* operation was applied, joined says that a node with join filters was    *)
(* visited, sibling says that, in one visit of a node, a child that is not *)
(* the default one yielded after the default child had yielded (in a       *)
(* frame, dflt says that the default child has yielded), and cleared says  *)
(* that the failed cases were emptied while the run went on.               *)
(***************************************************************************)
Frame(kind, node, ctx, content, shortname, dep) ==
    [kind |-> kind, pc |-> "start", node |-> node, ctx |-> ctx,
     content |-> content, shortname |-> shortname, dep |-> dep,
     skipdups |-> TRUE, parent |-> FALSE, old_content |-> <<>>,
     new_content |-> <<>>, idx |-> 0, count |-> 0, name |-> <<>>,
     onlys |-> <<>>, content_orig |-> <<>>, d1 |-> <<>>, saved |-> <<>>,
     dflt |-> FALSE]

Machine(p, skipdups) ==
    [h |-> p.h, parent_generator |-> p.parent_generator,
     stack |-> <<[Frame("J", p.node, <<>>, <<>>, <<>>, <<>>)
                     EXCEPT !.skipdups = skipdups]>>,
     out |-> <<>>, err |-> NoError,
     hits |-> 0, leaves |-> <<>>, joined |-> FALSE, sibling |-> FALSE,
     cleared |-> FALSE]

Top(m) == m.stack[Len(m.stack)]

Push(m, f) == [m EXCEPT !.stack = Append(@, f)]

SetTop(m, f) == [m EXCEPT !.stack[Len(m.stack)] = f]

\* content without joins, and all joins in the node
NonJoins(content) == SelectSeq(content, LAMBDA t : t.obj.cls # "JoinFilter")
Joins(content) == SelectSeq(content, LAMBDA t : t.obj.cls = "JoinFilter")

\* rewrite all separate joins in one node as many only filters
Onlys(joins) ==
    Flatten(List([j \in 1..Len(joins) |->
                List([w \in 1..Len(joins[j].obj.filt) |->
                    Entry(joins[j].fn, joins[j].ln,
                          FilterObj("OnlyFilter", <<joins[j].obj.filt[w]>>, <<>>))])]))

\* get_dicts_joined from its first line to its first call
JStart(m) ==
    LET f == Top(m)
        node_content == m.h[f.node].content
        joins == Joins(node_content)
        new_content == NonJoins(node_content)
        f1 == [f EXCEPT !.parent = m.parent_generator]
        m1 == [m EXCEPT !.parent_generator = FALSE]
        sub == Frame("P", f.node, f.ctx, f.content, f.shortname, f.dep)
        join == [Frame("F", f.node, f.ctx, f.content, f.shortname, f.dep)
                    EXCEPT !.onlys = Onlys(joins)]
    IN IF joins = <<>>
       THEN Push(SetTop(m1, [f1 EXCEPT !.pc = "plain"]), sub)
       ELSE Push(SetTop([m1 EXCEPT !.h[f.node].content = new_content,
                                   !.joined = TRUE],
                        [f1 EXCEPT !.pc = "joined", !.old_content = node_content]),
                 join)

\* join_filters from its first line to its first call.  node.content += only
\* extends the list in place; when the caller is the loop of an outer
\* join_filters, that list is the caller's content_orig.
FStart(m) ==
    LET f == Top(m)
        k == Len(m.stack)
        only == SubSeq(f.onlys, 1, 1)
        remains == Tail(f.onlys)
        content_orig == m.h[f.node].content
        aliased == k > 1 /\ m.stack[k - 1].kind = "F" /\ m.stack[k - 1].pc = "inner"
        m1 == [m EXCEPT !.h[f.node].content = @ \o only]
        m2 == IF aliased THEN [m1 EXCEPT !.stack[k - 1].content_orig = @ \o only]
              ELSE m1
        sub == Frame("P", f.node, f.ctx, f.content, f.shortname, f.dep)
    IN Push(SetTop(m2, [f EXCEPT !.content_orig = content_orig,
                                 !.pc = IF remains = <<>> THEN "single" ELSE "outer"]),
            sub)

\* the least element of a set of positions, 0 for the empty set
First(hits) == IF hits = {} THEN 0 ELSE CHOOSE i \in hits : \A j \in hits : i <= j

\* the first failed case of the node that says the visit cannot pass, 0 if
\* none does
FirstFailedCase(failed_cases, node_content, content, ctx, labels) ==
    First({i \in 1..Len(failed_cases) :
              ~might_pass(failed_cases[i], node_content, content, ctx, labels)})

\* the two calls with the operations of the enclosing nodes put before those
\* of the node itself
ExternalFirst(f, ctx, labels, own) ==
    IF own.ok
    THEN LET ext == process_content(f.content, 1, "external", ctx, labels,
                                    [own EXCEPT !.new_content = <<>>])
         IN [ext EXCEPT !.new_content = @ \o own.new_content]
    ELSE own

\* if not process_content(node.content, new_internal_filters) or not
\* process_content(content, new_external_filters): own is what the first
\* call left in the lists
ProcessExternal(f, ctx, labels, own) ==
    IF own.ok THEN process_content(f.content, 1, "external", ctx, labels, own)
    ELSE own

\* get_dicts_plain after its two calls of process_content left all in the
\* lists: the failed case is recorded, or the loop over the children begins
PProcessed(m, f, node, ctx, all) ==
    IF all.err # NoError THEN [m EXCEPT !.err = all.err]
    ELSE IF ~all.ok
         THEN SetTop([m EXCEPT !.h[f.node].failed_cases =
                          add_failed_case(@, FailedCase(ctx, all.new_external_filters,
                                                        all.new_internal_filters))],
                     [f EXCEPT !.pc = "ret"])
    ELSE SetTop(m, [f EXCEPT !.pc = "loop", !.ctx = ctx,
                             !.dep = f.dep \o NodeDeps(f.ctx, node.dep),
                             !.name = DottedLong(ctx),
                             !.shortname = IF node.append_to_shortname
                                           THEN f.shortname \o node.name
                                           ELSE f.shortname,
                             !.new_content = all.new_content,
                             !.idx = 1, !.count = 0])

\* get_dicts_plain after the loop over node.failed_cases found the case at
\* position hit (0: none) that says the visit cannot pass
PChecked(m, f, node, ctx, hit) ==
    IF hit # 0
    THEN SetTop([m EXCEPT !.h[f.node].failed_cases = MoveToFront(@, hit),
                          !.hits = @ + 1],
                [f EXCEPT !.pc = "ret"])
    ELSE PProcessed(m, f, node, ctx,
             ProcessExternal(f, ctx, node.labels,
                 process_content(node.content, 1, "internal", ctx, node.labels,
                                 PCStart)))

\* the visit of node by the frame f, in the context ctx
PVisit(m, consult, f, node, ctx) ==
    PChecked(m, f, node, ctx,
             IF consult
             THEN FirstFailedCase(node.failed_cases, node.content, f.content,
                                  ctx, node.labels)
             ELSE 0)

\* get_dicts_plain from its first line to the loop over the children;
\* consult = FALSE leaves out the check of the previously failed filters
PStart(m, consult) ==
    PVisit(m, consult, Top(m), m.h[Top(m).node], Top(m).ctx \o m.h[Top(m).node].name)

\* d = d1.copy(); d.update(d2); d["name"] = n1; d["shortname"] = n2
JoinedDict(d1, d2, n1, n2) ==
    DSet(DSet(DUpdate(d1, d2), PKey(kName), StrV(n1.s)), PKey(kShortname), StrV(n2.s))

\* the names of d1 and d2 joined: <<join_names of the names, join_names of
\* the short names>>
JoinedNames(d1, d2) ==
    [i \in 1..2 |->
        join_names(DGet(d1, PKey(<<kName, kShortname>>[i])).s,
                   DGet(d2, PKey(<<kName, kShortname>>[i])).s)]

RECURSIVE Deliver(_, _, _)
RECURSIVE DeliverJoined(_, _, _, _)
\* a dictionary d yielded to the frame at position k of the stack travels
\* down the for loops of the callers until one of them keeps it
Deliver(m, d, k) ==
    IF k = 0 THEN [m EXCEPT !.out = Append(@, d)]
    ELSE
      LET f == m.stack[k]
          inner == [Frame("F", f.node, f.ctx, f.content, f.shortname, f.dep)
                       EXCEPT !.onlys = Tail(f.onlys)]
          child == m.h[m.h[f.node].children[f.idx]]
      IN CASE f.kind = "P" ->
                \* count += 1; yield d
                Deliver([m EXCEPT !.stack[k].count = @ + 1,
                                  !.stack[k].dflt = @ \/ child.default,
                                  !.sibling = @ \/ (f.dflt /\ ~child.default)],
                        d, k - 1)
           [] f.kind = "J" ->
                \* yield drop_suffixes(d, skipdups=skipdups) if parent else d
                Deliver(m, IF f.parent THEN drop_suffixes(d, f.skipdups) ELSE d, k - 1)
           [] f.kind = "F" /\ f.pc = "single" ->
                Deliver(m, d, k - 1)
           [] f.kind = "F" /\ f.pc = "outer" ->
                \* for d1 in ...: node.content = content_orig; the generator
                \* that yielded d1 stays suspended while join_filters runs
                \* on what remains
                [m EXCEPT
                    !.h[f.node].content = f.content_orig,
                    !.stack = SubSeq(m.stack, 1, k - 1)
                              \o <<[f EXCEPT !.pc = "inner", !.d1 = d,
                                             !.saved = SubSeq(m.stack, k + 1,
                                                              Len(m.stack))],
                                   inner>>]
           [] f.kind = "F" /\ f.pc = "inner" ->
                \* for d2 in ...: d = d1.copy(); d.update(d2); join the names
                DeliverJoined(m, d, k, JoinedNames(f.d1, d))

\* the body of the inner loop of join_filters, the names n joined
DeliverJoined(m, d, k, n) ==
    IF ~n[1].ok \/ ~n[2].ok THEN [m EXCEPT !.err = ValueError]
    ELSE Deliver(m, JoinedDict(m.stack[k].d1, d, n[1], n[2]), k - 1)

\* the test of the defaults branch without the options: the loop that
\* breaks after a default child, taken by every Parser
AnyParser(p, node) == TRUE

\* self.defaults and node.var_name not in self.expand_defaults
DefaultsBranch(p, node) == p.defaults /\ node.var_name \notin p.expand_defaults

\* "Reached leaf?": d0 is the dictionary with the reserved keys, bounded
\* what apply_suffix_bounds made of it after the operations
PLeaf(m, f, d0, bounded) ==
    IF bounded.err THEN [m EXCEPT !.err = ValueError]
    ELSE Deliver([SetTop(m, [f EXCEPT !.pc = "ret"]) EXCEPT !.leaves = Append(@, d0)],
                 bounded.d, Len(m.stack) - 1)

\* the dictionary of the leaf that the frame f has reached
PLeafDict(m, f, d0) ==
    PLeaf(m, f, d0, apply_suffix_bounds(ApplyContent(f.new_content, 1, d0)))

\* get_dicts_plain in the loops over node.children and at "Reached leaf?"
PLoop(m) ==
    LET f == Top(m)
        node == m.h[f.node]
        sub == Frame("J", node.children[f.idx], f.ctx, f.new_content,
                     f.shortname, f.dep)
    IN IF f.idx <= Len(node.children) THEN Push(m, sub)
       ELSE IF node.children # <<>> THEN SetTop(m, [f EXCEPT !.pc = "ret"])
       ELSE IF \E i \in 1..Len(f.new_content) : ~IsOperator(f.new_content[i].obj)
            THEN [m EXCEPT !.err = AttributeError]
       ELSE PLeafDict(m, f, LeafDict(f.name, f.dep, f.shortname))

\* the content a node with joins is left with when nothing is put back
LeaveContent(m, f) == m

\* node.content = old_content[:]
RestoreContent(m, f) == [m EXCEPT !.h[f.node].content = f.old_content]

\* the generator on top of the stack is exhausted: its frame goes and the
\* for loop of its caller ends
Return(p, m) ==
    LET k == Len(m.stack) - 1
        m1 == [m EXCEPT !.stack = SubSeq(@, 1, k)]
        f == m.stack[k]
        child == m.h[m.h[f.node].children[f.idx]]
        break == DefaultsBranch(p, m.h[f.node]) /\ child.default /\ f.count > 0
    IN IF k = 0 THEN m1
       ELSE CASE f.kind = "P" ->
                   \* if n.default and count: break
                   SetTop(m1, [f EXCEPT !.idx = IF break
                                                THEN Len(m.h[f.node].children) + 1
                                                ELSE @ + 1])
              [] f.kind = "J" /\ f.pc = "plain" ->
                   SetTop(m1, [f EXCEPT !.pc = "ret"])
              [] f.kind = "J" /\ f.pc = "joined" ->
                   SetTop(RestoreContent(m1, f), [f EXCEPT !.pc = "ret"])
              [] f.kind = "F" /\ f.pc \in {"single", "outer"} ->
                   SetTop(m1, [f EXCEPT !.pc = "ret"])
              [] f.kind = "F" /\ f.pc = "inner" ->
                   \* the inner join_filters is exhausted: the generator
                   \* that yielded d1 is asked for the next one
                   [m1 EXCEPT !.stack = SubSeq(m1.stack, 1, k - 1)
                                        \o <<[f EXCEPT !.pc = "outer", !.d1 = <<>>,
                                                       !.saved = <<>>]>>
                                        \o f.saved]

\* one step of the frame on top of the stack
Step(p, m, consult) ==
    LET f == Top(m)
    IN CASE f.pc = "ret" -> Return(p, m)
         [] f.pc = "start" /\ f.kind = "J" -> JStart(m)
         [] f.pc = "start" /\ f.kind = "F" -> FStart(m)
         [] f.pc = "start" /\ f.kind = "P" -> PStart(m, consult)
         [] f.pc = "loop" -> PLoop(m)

\* the run is over: the outermost generator is exhausted or has raised
Done(m) == m.err # NoError \/ m.stack = <<>>

RECURSIVE Steps(_, _, _, _)
\* up to 2^k steps of the machine
Steps(p, m, consult, k) ==
    IF Done(m) THEN m
    ELSE IF k = 0 THEN Step(p, m, consult)
    ELSE Steps(p, Steps(p, m, consult, k - 1), consult, k - 1)

RECURSIVE RunFrom(_, _, _, _)
RunFrom(p, m, consult, k) ==
    IF Done(m) THEN m ELSE RunFrom(p, Steps(p, m, consult, k), consult, k + 1)

\* the outermost generator consumed to its end, or to the exception
Run(p, m, consult) == RunFrom(p, m, consult, 0)

(***************************************************************************)
(* The Parser object and its public methods                                *)
(***************************************************************************)
\* Parser.__init__(defaults=..., expand_defaults=...)
NewParser(defaults, expand_defaults) ==
    [h |-> <<NewNode>>, node |-> 1, defaults |-> defaults,
     expand_defaults |-> expand_defaults, parent_generator |-> TRUE,
     err |-> NoError]

\* Parser.only_filter(variant): parse_string("only %s" % variant)
only_filter(p, filt) == parse_string(p, <<SOnly(filt)>>)

\* Parser.no_filter(variant): parse_string("no %s" % variant)
no_filter(p, filt) == parse_string(p, <<SNo(filt)>>)

\* Parser.assign(key, value): parse_string("%s = %s" % (key, value))
assign(p, key, value) == parse_string(p, <<SOp("LSet", key, value)>>)

\* list(parser.get_dicts(skipdups=skipdups)): the machine at the end
get_dicts(p, skipdups) == Run(p, Machine(p, skipdups), TRUE)

\* the parser after the generator of get_dicts() has been consumed
AfterGetDicts(p, m) ==
    [p EXCEPT !.h = m.h, !.parent_generator = m.parent_generator]


(***************************************************************************)
(* Parser.parse_filter (parser.py)                                         *)
(*                                                                         *)
(* A token is [t, s]: t is the class of the token ("LIdentifier", "LDot",  *)
(* "LComa", "LWhite", "LLRBracket", "LRRBracket", "LSet", "LEndL") and s   *)
(* the text of an identifier.  The state of the loop is [i, or_filters,    *)
(* and_filter, con_filter, dots, err]: i is the place of the token in      *)
(* hand.                                                                   *)
(***************************************************************************)
ParserError == "ParserError"

Tok(t) == [t |-> t, s |-> <<>>]
Ident(s) == [t |-> "LIdentifier", s |-> s]

RECURSIVE NextNW(_, _)
\* next_nw(gener): the place of the next token after i that is no LWhite
NextNW(toks, i) ==
    IF toks[i + 1].t = "LWhite" THEN NextNW(toks, i + 1) ELSE i + 1

\* lexer.check_token(token, allowed_tokens) does not raise
Allowed(toks, i, allowed) == toks[i].t \in allowed

\* the label and the place of the last token of "(" ident ")" and of
\* "(" ident "=" value ")", the "(" at i; ok = FALSE when check_token raises
BracketValue(toks, ident, k) ==
    LET m == NextNW(toks, k)
    IN IF ~Allowed(toks, m, {"LIdentifier", "LString"})
       THEN [ok |-> FALSE, label |-> Label(<<>>, <<>>), i |-> m]
       ELSE [ok |-> Allowed(toks, NextNW(toks, m), {"LRRBracket"}),
             label |-> Label(toks[ident].s, toks[m].s), i |-> NextNW(toks, m)]

BracketEnd(toks, ident, k) ==
    IF ~Allowed(toks, k, {"LSet", "LRRBracket"})
    THEN [ok |-> FALSE, label |-> Label(<<>>, <<>>), i |-> k]
    ELSE IF toks[k].t = "LRRBracket"
    THEN [ok |-> TRUE, label |-> Label(<<>>, toks[ident].s), i |-> k]
    ELSE BracketValue(toks, ident, k)

Bracket(toks, i) ==
    IF ~Allowed(toks, NextNW(toks, i), {"LIdentifier"})
    THEN [ok |-> FALSE, label |-> Label(<<>>, <<>>), i |-> i]
    ELSE BracketEnd(toks, NextNW(toks, i), NextNW(toks, NextNW(toks, i)))

\* if dots == 1: ... elif dots == 2: ... elif dots == 0 or dots > 2: raise;
\* dots = 0
WithLabel(s, label) ==
    IF s.dots = 1
    THEN [s EXCEPT !.con_filter = Append(@, label), !.dots = 0]
    ELSE IF s.dots = 2
    THEN [s EXCEPT !.and_filter = Append(@, s.con_filter),
                   !.con_filter = <<label>>, !.dots = 0]
    ELSE [s EXCEPT !.err = ParserError]

\* the branch of LComa and LWhite up to dots = 1
Separated(s) ==
    IF s.dots > 0 THEN [s EXCEPT !.err = ParserError]
    ELSE IF s.and_filter # <<>>
    THEN [s EXCEPT !.or_filters =
                       Append(@, IF s.con_filter # <<>>
                                 THEN Append(s.and_filter, s.con_filter)
                                 ELSE s.and_filter),
                   !.and_filter = <<>>, !.con_filter = <<>>, !.dots = 1]
    ELSE IF s.con_filter # <<>>
    THEN [s EXCEPT !.or_filters = Append(@, <<s.con_filter>>),
                   !.con_filter = <<>>, !.dots = 1]
    ELSE [s EXCEPT !.err = ParserError]

\* the token in hand becomes the one at i, checked against allowed
Advance(toks, s, i, allowed) ==
    IF s.err # NoError THEN s
    ELSE IF ~Allowed(toks, i, allowed) THEN [s EXCEPT !.err = ParserError]
    ELSE [s EXCEPT !.i = i]

AfterToken == {"LIdentifier", "LComa", "LDot", "LLRBracket", "LEndL", "LWhite"}
AfterSeparator == {"LIdentifier", "LComa", "LDot", "LLRBracket", "LEndL"}

\* one turn of the while loop, the token in hand at s.i
FilterTurn(toks, s) ==
    LET t == toks[s.i].t
        b == Bracket(toks, s.i)
    IN IF t = "LIdentifier"
       THEN Advance(toks, WithLabel(s, Label(<<>>, toks[s.i].s)), s.i + 1, AfterToken)
       ELSE IF t = "LLRBracket"
       THEN IF ~b.ok THEN [s EXCEPT !.err = ParserError]
            ELSE Advance(toks, WithLabel(s, b.label), b.i + 1, AfterToken)
       ELSE IF t = "LDot"
       THEN Advance(toks, [s EXCEPT !.dots = @ + 1], s.i + 1, AfterToken)
       ELSE Advance(toks, Separated(s), NextNW(toks, s.i), AfterSeparator)

RECURSIVE FilterLoop(_, _)
\* while typet not in [LEndL]
FilterLoop(toks, s) ==
    IF s.err # NoError \/ toks[s.i].t = "LEndL" THEN s
    ELSE FilterLoop(toks, FilterTurn(toks, s))

\* the lines after the loop
FilterEnd(s) ==
    IF s.err # NoError THEN [err |-> s.err, filt |-> <<>>]
    ELSE IF s.and_filter # <<>>
    THEN [err |-> NoError,
          filt |-> Append(s.or_filters,
                          IF s.con_filter # <<>>
                          THEN Append(s.and_filter, s.con_filter)
                          ELSE s.and_filter)]
    ELSE IF s.con_filter # <<>>
    THEN [err |-> NoError, filt |-> Append(s.or_filters, <<s.con_filter>>)]
    ELSE [err |-> NoError, filt |-> s.or_filters]

\* Parser.parse_filter(lexer, tokens): [err, filt]
parse_filter(tokens) ==
    LET toks == Append(tokens, Tok("LEndL"))
        start == [i |-> 1, or_filters |-> <<>>, and_filter |-> <<>>,
                  con_filter |-> <<>>, dots |-> 1, err |-> NoError]
    IN IF ~Allowed(toks, 1, {"LIdentifier", "LLRBracket", "LEndL", "LWhite"})
       THEN [err |-> ParserError, filt |-> <<>>]
       ELSE FilterEnd(FilterLoop(toks, start))

(***************************************************************************)
(* StrReader (parser.py)                                                   *)
(*                                                                         *)
(* A string is a sequence of characters.  None is <<>> and a value v that  *)
(* may be None is <<v>>.                                                   *)
(***************************************************************************)
NewLine == "\n"
TabChar == "\t"
Blank == " "

\* the characters that str.strip() removes
IsWhite(c) == c \in {Blank, TabChar, NewLine}

\* s.splitlines(): a line ends at a line break, and what follows the last
\* line break is a line if it is not empty
RECURSIVE SplitLines(_, _)
SplitLines(s, line) ==
    IF s = <<>> THEN (IF line = <<>> THEN <<>> ELSE <<line>>)
    ELSE IF Head(s) = NewLine THEN <<line>> \o SplitLines(Tail(s), <<>>)
    ELSE SplitLines(Tail(s), Append(line, Head(s)))

\* line.lstrip()
RECURSIVE LStrip(_)
LStrip(s) == IF s # <<>> /\ IsWhite(Head(s)) THEN LStrip(Tail(s)) ELSE s

\* line.rstrip()
RECURSIVE RStrip(_)
RStrip(s) ==
    IF s # <<>> /\ IsWhite(s[Len(s)]) THEN RStrip(SubSeq(s, 1, Len(s) - 1)) ELSE s

\* line.strip()
Strip(s) == LStrip(RStrip(s))

\* the width of a tab stop of str.expandtabs()
TabSize == 8

\* line.expandtabs(): a tab becomes the spaces up to the next tab stop
RECURSIVE ExpandTabs(_, _)
ExpandTabs(s, done) ==
    IF s = <<>> THEN done
    ELSE IF Head(s) = TabChar
         THEN ExpandTabs(Tail(s),
                         done \o [i \in 1..(TabSize - (Len(done) % TabSize)) |-> Blank])
         ELSE ExpandTabs(Tail(s), Append(done, Head(s)))

\* stripped_line.startswith(("#", "//"))
IsComment(s) ==
    \/ Len(s) >= 1 /\ s[1] = "#"
    \/ Len(s) >= 2 /\ s[1] = "/" /\ s[2] = "/"

\* an element of StrReader._lines, of StrReader._stored_line and what
\* get_next_line returns: (line, indent, linenum)
Line(line, indent, linenum) ==
    [line |-> line, indent |-> indent, linenum |-> linenum]

\* the loop of StrReader.__init__ from the line at position i on
RECURSIVE StoreLines(_, _)
StoreLines(raw, i) ==
    IF i > Len(raw) THEN <<>>
    ELSE LET line == ExpandTabs(RStrip(raw[i]), <<>>)
             stripped_line == LStrip(line)
             indent == Len(line) - Len(stripped_line)
         IN IF stripped_line = <<>> \/ IsComment(stripped_line)
            THEN StoreLines(raw, i + 1)
            ELSE <<Line(<<stripped_line>>, indent, i)>> \o StoreLines(raw, i + 1)

\* StrReader(s)
StrReader(s) ==
    [filename |-> "<string>", lines |-> StoreLines(SplitLines(s, <<>>), 1),
     line_index |-> 0, stored_line |-> <<>>]

\* (None, -1, -1)
NoLine == Line(<<>>, -1, -1)

\* reader.get_next_line(prev_indent): the reader it leaves and what it
\* returns
get_next_line(r, prev_indent) ==
    IF r.stored_line # <<>>
    THEN [reader |-> [r EXCEPT !.stored_line = <<>>], ret |-> r.stored_line[1]]
    ELSE IF r.line_index >= Len(r.lines)
    THEN [reader |-> r, ret |-> NoLine]
    ELSE LET l == r.lines[r.line_index + 1]
         IN IF l.indent <= prev_indent
            THEN [reader |-> r, ret |-> Line(<<>>, l.indent, l.linenum)]
            ELSE [reader |-> [r EXCEPT !.line_index = @ + 1], ret |-> l]

\* a set_next_line that keeps the line as it is given
KeepLine(r, line, indent, linenum) ==
    [r EXCEPT !.stored_line = <<Line(<<line>>, indent, linenum)>>]

\* reader.set_next_line(line, indent, linenum): the reader it leaves
set_next_line(r, line, indent, linenum) ==
    IF Strip(line) # <<>>
    THEN [r EXCEPT !.stored_line = <<Line(<<Strip(line)>>, indent, linenum)>>]
    ELSE r

(***************************************************************************)
(* Lexer (parser.py): __init__, set_prev_indent, match in its strict mode  *)
(* and get_lexer.  The Lexer reads from the StrReader held beside it.      *)
(***************************************************************************)
LexerError == "LexerError"
RuntimeError == "RuntimeError"

\* char.isalnum()
AlnumChars ==
    {"a", "b", "c", "d", "e", "f", "g", "h", "i", "j", "k", "l", "m", "n", "o",
     "p", "q", "r", "s", "t", "u", "v", "w", "x", "y", "z", "A", "B", "C", "D",
     "E", "F", "G", "H", "I", "J", "K", "L", "M", "N", "O", "P", "Q", "R", "S",
     "T", "U", "V", "W", "X", "Y", "Z", "0", "1", "2", "3", "4", "5", "6", "7",
     "8", "9"}

\* Lexer.spec_iden and Lexer.spec_oper
spec_iden == {"_", "-"}
spec_oper == {"+", "<", "?", "~"}

\* char.isalnum() or char in Lexer.spec_iden
IsIdentChar(c) == c \in AlnumChars \cup spec_iden

\* tokens_map (tokens.py): the class of the token of a character, "" if the
\* character has none
tokens_map(c) ==
    CASE c = "-" -> "LVariant" [] c = "." -> "LDot" [] c = ":" -> "LColon"
      [] c = "@" -> "LDefault" [] c = "," -> "LComa" [] c = "[" -> "LLBracket"
      [] c = "]" -> "LRBracket" [] c = "(" -> "LLRBracket"
      [] c = ")" -> "LRRBracket" [] c = "!" -> "LNotCond" [] OTHER -> ""

\* tokens_oper (tokens.py): the class of the operator written oper=, "" if
\* there is none
tokens_oper(oper) ==
    CASE oper = <<>> -> "LSet" [] oper = <<"~">> -> "LLazySet"
      [] oper = <<"+">> -> "LAppend" [] oper = <<"<">> -> "LPrepend"
      [] oper = <<"?">> -> "LRegExpSet" [] oper = <<"?", "+">> -> "LRegExpAppend"
      [] oper = <<"?", "<">> -> "LRegExpPrepend" [] OTHER -> ""

\* LIndent(length) and LEndBlock(length)
LIndent(length) == [t |-> "LIndent", s |-> <<>>, length |-> length]
LEndBlock(length) == [t |-> "LEndBlock", s |-> <<>>, length |-> length]

\* LString(s)
LString(s) == [t |-> "LString", s |-> s]

\* line.startswith(prefix)
StartsWith(line, prefix) ==
    Len(line) >= Len(prefix) /\ SubSeq(line, 1, Len(prefix)) = prefix

\* while line[pos].isspace(): pos += 1, with pos counted from 0; Len(line)
\* when the line ends first, where Python raises IndexError
RECURSIVE SkipSpace(_, _)
SkipSpace(line, pos) ==
    IF pos >= Len(line) THEN Len(line)
    ELSE IF IsWhite(line[pos + 1]) THEN SkipSpace(line, pos + 1) ELSE pos

\* the keyword that line begins with: the tokens it yields and the position
\* from which the characters are read
Keyword(line) ==
    LET kw(word, tok, skip) ==
            [toks |-> <<Tok(tok)>>,
             pos |-> IF skip THEN SkipSpace(line, Len(word) - 1) ELSE Len(word) - 1]
        none == [toks |-> <<>>, pos |-> 0]
    IN CASE StartsWith(line, <<"v", "a", "r", "i", "a", "n", "t", "s", ":">>) ->
                [toks |-> <<Tok("LVariants"), Tok("LColon")>>, pos |-> 9]
         [] StartsWith(line, <<"v", "a", "r", "i", "a", "n", "t", "s", " ">>) ->
                kw(<<"v", "a", "r", "i", "a", "n", "t", "s", " ">>, "LVariants", FALSE)
         [] line[1] = "-" -> [toks |-> <<Tok("LVariant")>>, pos |-> 1]
         [] StartsWith(line, <<"o", "n", "l", "y", " ">>) ->
                kw(<<"o", "n", "l", "y", " ">>, "LOnly", TRUE)
         [] StartsWith(line, <<"n", "o", " ">>) -> kw(<<"n", "o", " ">>, "LNo", TRUE)
         [] StartsWith(line, <<"i", "n", "c", "l", "u", "d", "e", " ">>) ->
                kw(<<"i", "n", "c", "l", "u", "d", "e", " ">>, "LInclude", FALSE)
         [] StartsWith(line, <<"d", "e", "l", " ">>) ->
                kw(<<"d", "e", "l", " ">>, "LDel", TRUE)
         [] StartsWith(line, <<"s", "u", "f", "f", "i", "x", " ">>) ->
                kw(<<"s", "u", "f", "f", "i", "x", " ">>, "LSuffix", TRUE)
         [] StartsWith(line, <<"j", "o", "i", "n", " ">>) ->
                kw(<<"j", "o", "i", "n", " ">>, "LJoin", TRUE)
         [] OTHER -> none

\* the least position after i, counted from 1, whose character is c, or is
\* no white space when c is ""; 0 when there is none
RECURSIVE FindAfter(_, _, _)
FindAfter(line, i, c) ==
    IF i >= Len(line) THEN 0
    ELSE IF (c = "" /\ ~IsWhite(line[i + 1])) \/ (c # "" /\ line[i + 1] = c)
         THEN i + 1
         ELSE FindAfter(line, i + 1, c)

\* if chars: yield LIdentifier(chars); chars = ""
YieldChars(st) ==
    IF st.chars # <<>>
    THEN [st EXCEPT !.toks = Append(@, Ident(st.chars)), !.chars = <<>>]
    ELSE st

\* the branches on char after the white space was passed, char being the
\* character at position i of line
OnChar(line, st, i) ==
    LET char == line[i]
        next == [st EXCEPT !.i = i + 1]
        close == FindAfter(line, i, "\"")
    IN IF IsIdentChar(char) THEN [next EXCEPT !.chars = Append(@, char)]
       ELSE IF char = "="
       THEN IF tokens_oper(st.oper) # ""
            THEN [next EXCEPT !.toks = Append(@, Tok(tokens_oper(st.oper))),
                              !.oper = <<>>]
            ELSE [st EXCEPT !.err = LexerError]
       ELSE IF tokens_map(char) # ""
       THEN [next EXCEPT !.toks = Append(@, Tok(tokens_map(char)))]
       ELSE IF char = "\""
       THEN IF close = 0 THEN [st EXCEPT !.err = RuntimeError]
            ELSE [st EXCEPT !.i = close + 1,
                            !.chars = SubSeq(line, i + 1, close - 1),
                            !.toks = Append(@, LString(SubSeq(line, i + 1, close - 1)))]
       ELSE IF char = "#" THEN [st EXCEPT !.i = Len(line) + 1]
       ELSE IF char \in spec_oper THEN [next EXCEPT !.oper = Append(@, char)]
       ELSE [st EXCEPT !.err = LexerError]

\* the white space that begins at position i: LWhite is yielded when a
\* character follows it, and that character is looked at; when none
\* follows, the last character of the line is
OnWhite(line, st, i, ignore_white) ==
    LET after == FindAfter(line, i, "")
    IN IF after = 0 THEN OnChar(line, st, Len(line))
       ELSE OnChar(line,
                   IF ignore_white THEN st
                   ELSE [st EXCEPT !.toks = Append(@, Tok("LWhite"))],
                   after)

\* the loop of match over the characters of line, in its strict mode
RECURSIVE MatchChars(_, _, _)
MatchChars(line, st, ignore_white) ==
    IF st.err # NoError \/ st.i > Len(line) THEN st
    ELSE LET char == line[st.i]
         IN MatchChars(line,
                IF IsIdentChar(char)
                THEN [st EXCEPT !.chars = Append(@, char), !.i = @ + 1]
                ELSE IF char \in spec_oper
                THEN [YieldChars(st) EXCEPT
                         !.oper = (IF st.chars # <<>> THEN <<>> ELSE @) \o <<char>>,
                         !.i = @ + 1]
                ELSE IF IsWhite(char)
                THEN OnWhite(line, YieldChars(st), st.i, ignore_white)
                ELSE OnChar(line, YieldChars(st), st.i),
                ignore_white)

\* the end of match: if chars: yield LIdentifier(chars); yield LEndL()
MatchEnd(st) ==
    IF st.err # NoError THEN [toks |-> st.toks, err |-> st.err]
    ELSE [toks |-> Append(YieldChars(st).toks, Tok("LEndL")), err |-> NoError]

\* lexer.match(line, 0) with fast and rest_as_string false: the tokens it
\* yields and the error it raises after them
match(line, ignore_white) ==
    MatchEnd(MatchChars(line,
                        [i |-> Keyword(line).pos + 1, chars |-> <<>>, oper |-> <<>>,
                         toks |-> Keyword(line).toks, err |-> NoError],
                        ignore_white))

\* Lexer(reader): Lexer.__init__.  generator holds what get_lexer has still
\* to yield of the line it is in, and what it raises after that
Lexer(r) ==
    [filename |-> r.filename, line |-> <<>>, linenum |-> 0,
     ignore_white |-> FALSE, rest_as_string |-> FALSE, match_func_index |-> 0,
     generator |-> [pending |-> <<>>, raises |-> NoError],
     prev_indent |-> 0, fast |-> FALSE, err |-> NoError]

\* lexer.set_prev_indent(prev_indent)
set_prev_indent(lx, prev_indent) == [lx EXCEPT !.prev_indent = prev_indent]

\* get_lexer at the top of its while loop: the next line is asked of the
\* reader; LEndBlock is yielded when there is none in the block, else
\* LIndent, and the tokens of the line are to follow
NextLineTokens(lx, g) ==
    IF g.ret.line = <<>>
    THEN [lexer |-> [lx EXCEPT !.line = <<>>, !.linenum = g.ret.linenum],
          reader |-> g.reader, token |-> <<LEndBlock(g.ret.indent)>>]
    ELSE [lexer |-> [lx EXCEPT
                        !.line = g.ret.line, !.linenum = g.ret.linenum,
                        !.generator =
                            [pending |-> match(g.ret.line[1], lx.ignore_white).toks,
                             raises |-> match(g.ret.line[1], lx.ignore_white).err]],
          reader |-> g.reader, token |-> <<LIndent(g.ret.indent)>>]

\* next(lexer.generator): the Lexer and the reader it leaves, and <<token>>,
\* or <<>> when it raises
next_token(lx, r) ==
    IF lx.generator.pending # <<>>
    THEN [lexer |-> [lx EXCEPT !.generator.pending = Tail(@)], reader |-> r,
          token |-> <<Head(lx.generator.pending)>>]
    ELSE IF lx.generator.raises # NoError
    THEN [lexer |-> [lx EXCEPT !.err = lx.generator.raises], reader |-> r,
          token |-> <<>>]
    ELSE NextLineTokens(lx, get_next_line(r, lx.prev_indent))
(***************************************************************************)
(* The configuration texts                                                 *)
(***************************************************************************)
\* two variants blocks and a key set before them:
\*     c = 1
\*     variants:
\*       - a:
\*           x = 1
\*       - b:
\*           x = 2
\*     variants:
\*       - p:
\*       - q:
TxProduct ==
    <<SOp("LSet", <<"c">>, <<"1">>), SVariants(<<>>, <<>>, <<Variant(FALSE,
      <<<<"a">>>>, <<>>, <<SOp("LSet", <<"x">>, <<"1">>)>>), Variant(FALSE,
      <<<<"b">>>>, <<>>, <<SOp("LSet", <<"x">>, <<"2">>)>>)>>),
      SVariants(<<>>, <<>>, <<Variant(FALSE, <<<<"p">>>>, <<>>, <<>>),
      Variant(FALSE, <<<<"q">>>>, <<>>, <<>>)>>)>>

\* an only filter after the block:
\*     variants:
\*       - a:
\*       - b:
\*     only a
TxOnly ==
    <<SVariants(<<>>, <<>>, <<Variant(FALSE, <<<<"a">>>>, <<>>, <<>>),
      Variant(FALSE, <<<<"b">>>>, <<>>, <<>>)>>), SOnly(<<<<<<Label(<<>>,
      <<"a">>)>>>>>>)>>

\* suffixes and a join of two clauses:
\*     variants:
\*       - a:
\*           f = 1
\*           suffix _a
\*       - b:
\*           f = 2
\*           suffix _b
\*     join a b
TxSuffixJoin ==
    <<SVariants(<<>>, <<>>, <<Variant(FALSE, <<<<"a">>>>, <<>>, <<SOp("LSet",
      <<"f">>, <<"1">>), SSuffix(<<"_", "a">>)>>), Variant(FALSE,
      <<<<"b">>>>, <<>>, <<SOp("LSet", <<"f">>, <<"2">>), SSuffix(<<"_",
      "b">>)>>)>>), SJoin(<<<<<<Label(<<>>, <<"a">>)>>>>, <<<<Label(<<>>,
      <<"b">>)>>>>>>)>>

\* a suffix in one variant:
\*     k = 1
\*     variants:
\*       - a:
\*           k = 2
\*           suffix _s
\*       - b:
\*     m = ${k}
TxSuffix ==
    <<SOp("LSet", <<"k">>, <<"1">>), SVariants(<<>>, <<>>, <<Variant(FALSE,
      <<<<"a">>>>, <<>>, <<SOp("LSet", <<"k">>, <<"2">>), SSuffix(<<"_",
      "s">>)>>), Variant(FALSE, <<<<"b">>>>, <<>>, <<>>)>>), SOp("LSet",
      <<"m">>, <<"$", "{", "k", "}">>)>>

\* an axis with a default variant:
\*     variants A:
\*       - @a:
\*           r = 1
\*       - b:
\*           r = 2
TxDefault ==
    <<SVariants(<<"A">>, <<>>, <<Variant(TRUE, <<<<"a">>>>, <<>>,
      <<SOp("LSet", <<"r">>, <<"1">>)>>), Variant(FALSE, <<<<"b">>>>, <<>>,
      <<SOp("LSet", <<"r">>, <<"2">>)>>)>>)>>

\* a block nested in a variant of the axis A, with a default:
\*     variants A:
\*       - a:
\*           variants N:
\*             - @n:
\*             - m:
\*       - b:
TxNested ==
    <<SVariants(<<"A">>, <<>>, <<Variant(FALSE, <<<<"a">>>>, <<>>,
      <<SVariants(<<"N">>, <<>>, <<Variant(TRUE, <<<<"n">>>>, <<>>, <<>>),
      Variant(FALSE, <<<<"m">>>>, <<>>, <<>>)>>)>>), Variant(FALSE,
      <<<<"b">>>>, <<>>, <<>>)>>)>>

\* a key with the _max suffix:
\*     x = 1
\*     y_max = 4
TxBound ==
    <<SOp("LSet", <<"x">>, <<"1">>), SOp("LSet", <<"y", "_", "m", "a", "x">>,
      <<"4">>)>>

\* a _fixed key whose base is a reserved key:
\*     name_fixed = zz
\*     variants:
\*       - a:
TxFixedName ==
    <<SOp("LSet", <<"n", "a", "m", "e", "_", "f", "i", "x", "e", "d">>,
      <<"z", "z">>), SVariants(<<>>, <<>>, <<Variant(FALSE, <<<<"a">>>>,
      <<>>, <<>>)>>)>>

\* a join that repeats its clause:
\*     variants:
\*       - a:
\*           x = 1
\*       - b:
\*     join a a
TxJoinTwice ==
    <<SVariants(<<>>, <<>>, <<Variant(FALSE, <<<<"a">>>>, <<>>, <<SOp("LSet",
      <<"x">>, <<"1">>)>>), Variant(FALSE, <<<<"b">>>>, <<>>, <<>>)>>),
      SJoin(<<<<<<Label(<<>>, <<"a">>)>>>>, <<<<Label(<<>>, <<"a">>)>>>>>>)>>

\* a conditional block and a negative one:
\*     variants:
\*       - a:
\*       - b:
\*     a:
\*         x = 1
\*     !a:
\*         x = 2
TxCond ==
    <<SVariants(<<>>, <<>>, <<Variant(FALSE, <<<<"a">>>>, <<>>, <<>>),
      Variant(FALSE, <<<<"b">>>>, <<>>, <<>>)>>), SCond(<<<<<<Label(<<>>,
      <<"a">>)>>>>>>, <<SOp("LSet", <<"x">>, <<"1">>)>>),
      SNotCond(<<<<<<Label(<<>>, <<"a">>)>>>>>>, <<SOp("LSet", <<"x">>,
      <<"2">>)>>)>>

\* a join of one clause at the root:
\*     variants:
\*       - a:
\*           x = 1
\*       - b:
\*           x = 2
\*     join a
TxJoinOne ==
    <<SVariants(<<>>, <<>>, <<Variant(FALSE, <<<<"a">>>>, <<>>, <<SOp("LSet",
      <<"x">>, <<"1">>)>>), Variant(FALSE, <<<<"b">>>>, <<>>, <<SOp("LSet",
      <<"x">>, <<"2">>)>>)>>), SJoin(<<<<<<Label(<<>>, <<"a">>)>>>>>>)>>

\* a join of one clause in a conditional block:
\*     variants:
\*       - a:
\*           x = 1
\*       - b:
\*     a:
\*         join a
TxJoinCond ==
    <<SVariants(<<>>, <<>>, <<Variant(FALSE, <<<<"a">>>>, <<>>, <<SOp("LSet",
      <<"x">>, <<"1">>)>>), Variant(FALSE, <<<<"b">>>>, <<>>, <<>>)>>),
      SCond(<<<<<<Label(<<>>, <<"a">>)>>>>>>, <<SJoin(<<<<<<Label(<<>>,
      <<"a">>)>>>>>>)>>)>>

\* a join of three clauses, the first of which matches two variants:
\*     variants:
\*       - a:
\*           x = 1
\*       - b:
\*           x = 2
\*     variants:
\*       - p:
\*       - q:
\*     join a p.b q.b
TxJoinThree ==
    <<SVariants(<<>>, <<>>, <<Variant(FALSE, <<<<"a">>>>, <<>>, <<SOp("LSet",
      <<"x">>, <<"1">>)>>), Variant(FALSE, <<<<"b">>>>, <<>>, <<SOp("LSet",
      <<"x">>, <<"2">>)>>)>>), SVariants(<<>>, <<>>, <<Variant(FALSE,
      <<<<"p">>>>, <<>>, <<>>), Variant(FALSE, <<<<"q">>>>, <<>>, <<>>)>>),
      SJoin(<<<<<<Label(<<>>, <<"a">>)>>>>, <<<<Label(<<>>, <<"p">>),
      Label(<<>>, <<"b">>)>>>>, <<<<Label(<<>>, <<"q">>), Label(<<>>,
      <<"b">>)>>>>>>)>>

\* a join of one clause in a variant of the second block:
\*     variants:
\*       - a:
\*           x = 1
\*           suffix _a
\*       - b:
\*           x = 2
\*     variants:
\*       - p:
\*           join b
\*       - q:
TxJoinInner ==
    <<SVariants(<<>>, <<>>, <<Variant(FALSE, <<<<"a">>>>, <<>>, <<SOp("LSet",
      <<"x">>, <<"1">>), SSuffix(<<"_", "a">>)>>), Variant(FALSE,
      <<<<"b">>>>, <<>>, <<SOp("LSet", <<"x">>, <<"2">>)>>)>>),
      SVariants(<<>>, <<>>, <<Variant(FALSE, <<<<"p">>>>, <<>>,
      <<SJoin(<<<<<<Label(<<>>, <<"b">>)>>>>>>)>>), Variant(FALSE,
      <<<<"q">>>>, <<>>, <<>>)>>)>>

\* a key set before a block, set again and suffixed in its variant, used after it:
\*     k = hi
\*     variants:
\*       - v:
\*           k = bye
\*           suffix _s
\*     msg = ${k}
TxSubst ==
    <<SOp("LSet", <<"k">>, <<"h", "i">>), SVariants(<<>>, <<>>,
      <<Variant(FALSE, <<<<"v">>>>, <<>>, <<SOp("LSet", <<"k">>, <<"b", "y",
      "e">>), SSuffix(<<"_", "s">>)>>)>>), SOp("LSet", <<"m", "s", "g">>,
      <<"$", "{", "k", "}">>)>>

\* the empty text
TxEmpty == <<>>

\* the texts given to parse_string
Texts ==
    {TxProduct, TxOnly, TxSuffixJoin, TxSuffix, TxDefault, TxNested,
     TxBound, TxFixedName, TxJoinTwice, TxCond, TxJoinOne, TxJoinCond,
     TxJoinThree, TxJoinInner, TxSubst, TxEmpty}

\* a filter in one variant of the second of three blocks:
\*     variants:
\*       - a:
\*       - b:
\*     variants:
\*       - p:
\*       - q:
\*           only a
\*     variants:
\*       - x:
\*       - y:
TxMemo ==
    <<SVariants(<<>>, <<>>, <<Variant(FALSE, <<<<"a">>>>, <<>>, <<>>),
      Variant(FALSE, <<<<"b">>>>, <<>>, <<>>)>>), SVariants(<<>>, <<>>,
      <<Variant(FALSE, <<<<"p">>>>, <<>>, <<>>), Variant(FALSE, <<<<"q">>>>,
      <<>>, <<SOnly(<<<<<<Label(<<>>, <<"a">>)>>>>>>)>>)>>), SVariants(<<>>,
      <<>>, <<Variant(FALSE, <<<<"x">>>>, <<>>, <<>>), Variant(FALSE,
      <<<<"y">>>>, <<>>, <<>>)>>)>>

\* an only filter of two paths:
\*     variants:
\*       - a:
\*       - b:
\*     variants:
\*       - p:
\*       - q:
\*     only p..a, q..b
TxPaths ==
    <<SVariants(<<>>, <<>>, <<Variant(FALSE, <<<<"a">>>>, <<>>, <<>>),
      Variant(FALSE, <<<<"b">>>>, <<>>, <<>>)>>), SVariants(<<>>, <<>>,
      <<Variant(FALSE, <<<<"p">>>>, <<>>, <<>>), Variant(FALSE, <<<<"q">>>>,
      <<>>, <<>>)>>), SOnly(<<<<<<Label(<<>>, <<"p">>)>>, <<Label(<<>>,
      <<"a">>)>>>>, <<<<Label(<<>>, <<"q">>)>>, <<Label(<<>>,
      <<"b">>)>>>>>>)>>

\* a no filter of one path:
\*     variants:
\*       - a:
\*       - b:
\*     variants:
\*       - p:
\*       - q:
\*     no p..a
TxNoPath ==
    <<SVariants(<<>>, <<>>, <<Variant(FALSE, <<<<"a">>>>, <<>>, <<>>),
      Variant(FALSE, <<<<"b">>>>, <<>>, <<>>)>>), SVariants(<<>>, <<>>,
      <<Variant(FALSE, <<<<"p">>>>, <<>>, <<>>), Variant(FALSE, <<<<"q">>>>,
      <<>>, <<>>)>>), SNo(<<<<<<Label(<<>>, <<"p">>)>>, <<Label(<<>>,
      <<"a">>)>>>>>>)>>

\* the texts whose enumeration is followed step by step
MemoTexts ==
    {TxMemo, TxPaths, TxNoPath}

\* two conditional blocks declared before the variants they name:
\*     p.a:
\*         x = 1
\*     !a..p:
\*         y = 1
\*     variants:
\*       - a:
\*       - b:
\*     variants:
\*       - p:
\*       - q:
TxCondFirst ==
    <<SCond(<<<<<<Label(<<>>, <<"p">>), Label(<<>>, <<"a">>)>>>>>>,
      <<SOp("LSet", <<"x">>, <<"1">>)>>), SNotCond(<<<<<<Label(<<>>,
      <<"a">>)>>, <<Label(<<>>, <<"p">>)>>>>>>, <<SOp("LSet", <<"y">>,
      <<"1">>)>>), SVariants(<<>>, <<>>, <<Variant(FALSE, <<<<"a">>>>, <<>>,
      <<>>), Variant(FALSE, <<<<"b">>>>, <<>>, <<>>)>>), SVariants(<<>>,
      <<>>, <<Variant(FALSE, <<<<"p">>>>, <<>>, <<>>), Variant(FALSE,
      <<<<"q">>>>, <<>>, <<>>)>>)>>

\* two conditional blocks declared after the variants they name:
\*     variants:
\*       - a:
\*       - b:
\*     variants:
\*       - p:
\*       - q:
\*     a, q:
\*         x = 1
\*     !p.b:
\*         y = 1
TxCondLast ==
    <<SVariants(<<>>, <<>>, <<Variant(FALSE, <<<<"a">>>>, <<>>, <<>>),
      Variant(FALSE, <<<<"b">>>>, <<>>, <<>>)>>), SVariants(<<>>, <<>>,
      <<Variant(FALSE, <<<<"p">>>>, <<>>, <<>>), Variant(FALSE, <<<<"q">>>>,
      <<>>, <<>>)>>), SCond(<<<<<<Label(<<>>, <<"a">>)>>>>, <<<<Label(<<>>,
      <<"q">>)>>>>>>, <<SOp("LSet", <<"x">>, <<"1">>)>>),
      SNotCond(<<<<<<Label(<<>>, <<"p">>), Label(<<>>, <<"b">>)>>>>>>,
      <<SOp("LSet", <<"y">>, <<"1">>)>>)>>

\* conditional blocks in the variants of the first block that name the second:
\*     variants:
\*       - a:
\*           x = 0
\*           q:
\*               x = 1
\*       - b:
\*           !p:
\*               y = 1
\*     variants:
\*       - p:
\*       - q:
TxCondInner ==
    <<SVariants(<<>>, <<>>, <<Variant(FALSE, <<<<"a">>>>, <<>>, <<SOp("LSet",
      <<"x">>, <<"0">>), SCond(<<<<<<Label(<<>>, <<"q">>)>>>>>>,
      <<SOp("LSet", <<"x">>, <<"1">>)>>)>>), Variant(FALSE, <<<<"b">>>>,
      <<>>, <<SNotCond(<<<<<<Label(<<>>, <<"p">>)>>>>>>, <<SOp("LSet",
      <<"y">>, <<"1">>)>>)>>)>>), SVariants(<<>>, <<>>, <<Variant(FALSE,
      <<<<"p">>>>, <<>>, <<>>), Variant(FALSE, <<<<"q">>>>, <<>>, <<>>)>>)>>

\* conditional blocks in a variant of the second block that name the axis A:
\*     variants A:
\*       - a:
\*       - b:
\*     variants:
\*       - p:
\*           a:
\*               x = 1
\*           !a:
\*               y = 1
\*       - q:
TxCondOuter ==
    <<SVariants(<<"A">>, <<>>, <<Variant(FALSE, <<<<"a">>>>, <<>>, <<>>),
      Variant(FALSE, <<<<"b">>>>, <<>>, <<>>)>>), SVariants(<<>>, <<>>,
      <<Variant(FALSE, <<<<"p">>>>, <<>>, <<SCond(<<<<<<Label(<<>>,
      <<"a">>)>>>>>>, <<SOp("LSet", <<"x">>, <<"1">>)>>),
      SNotCond(<<<<<<Label(<<>>, <<"a">>)>>>>>>, <<SOp("LSet", <<"y">>,
      <<"1">>)>>)>>), Variant(FALSE, <<<<"q">>>>, <<>>, <<>>)>>)>>

\* conditional blocks in a conditional block:
\*     variants:
\*       - a:
\*       - b:
\*     variants:
\*       - p:
\*       - q:
\*     a:
\*         x = 1
\*         p:
\*             x = 2
\*         !p:
\*             y = 3
TxCondNested ==
    <<SVariants(<<>>, <<>>, <<Variant(FALSE, <<<<"a">>>>, <<>>, <<>>),
      Variant(FALSE, <<<<"b">>>>, <<>>, <<>>)>>), SVariants(<<>>, <<>>,
      <<Variant(FALSE, <<<<"p">>>>, <<>>, <<>>), Variant(FALSE, <<<<"q">>>>,
      <<>>, <<>>)>>), SCond(<<<<<<Label(<<>>, <<"a">>)>>>>>>, <<SOp("LSet",
      <<"x">>, <<"1">>), SCond(<<<<<<Label(<<>>, <<"p">>)>>>>>>,
      <<SOp("LSet", <<"x">>, <<"2">>)>>), SNotCond(<<<<<<Label(<<>>,
      <<"p">>)>>>>>>, <<SOp("LSet", <<"y">>, <<"3">>)>>)>>)>>

\* a join and an assignment in a conditional block:
\*     variants:
\*       - a:
\*       - b:
\*     b:
\*         join a
\*         y = 2
TxCondJoin ==
    <<SVariants(<<>>, <<>>, <<Variant(FALSE, <<<<"a">>>>, <<>>, <<>>),
      Variant(FALSE, <<<<"b">>>>, <<>>, <<>>)>>), SCond(<<<<<<Label(<<>>,
      <<"b">>)>>>>>>, <<SJoin(<<<<<<Label(<<>>, <<"a">>)>>>>>>), SOp("LSet",
      <<"y">>, <<"2">>)>>)>>

\* the texts with conditional blocks
CondTexts ==
    {TxCondFirst, TxCondLast, TxCondInner, TxCondOuter, TxCondNested, TxCondJoin}

\* a lazy assignment written after the block whose variant a sets the key:
\*     variants:
\*       - a:
\*           foo = bar
\*       - b:
\*     foo ~= qux
TxLazy ==
    <<SVariants(<<>>, <<>>, <<Variant(FALSE, <<<<"a">>>>, <<>>, <<SOp("LSet",
      <<"f", "o", "o">>, <<"b", "a", "r">>)>>), Variant(FALSE, <<<<"b">>>>,
      <<>>, <<>>)>>), SOp("LLazySet", <<"f", "o", "o">>, <<"q", "u", "x">>)>>

\* a suffix written before the assignment of its variant:
\*     variants:
\*       - a:
\*           suffix _s
\*           k = 1
\*       - b:
\*           k = 2
TxSuffixFirst ==
    <<SVariants(<<>>, <<>>, <<Variant(FALSE, <<<<"a">>>>, <<>>,
      <<SSuffix(<<"_", "s">>), SOp("LSet", <<"k">>, <<"1">>)>>),
      Variant(FALSE, <<<<"b">>>>, <<>>, <<SOp("LSet", <<"k">>,
      <<"2">>)>>)>>)>>

\* a key extended before a block, in its variants, after it, in a conditional block and after that:
\*     x = 0
\*     variants:
\*       - a:
\*           x += 1
\*       - b:
\*           x <= 3
\*     x += 2
\*     a:
\*         x += 4
\*     x += 5
TxOrder ==
    <<SOp("LSet", <<"x">>, <<"0">>), SVariants(<<>>, <<>>, <<Variant(FALSE,
      <<<<"a">>>>, <<>>, <<SOp("LAppend", <<"x">>, <<"1">>)>>),
      Variant(FALSE, <<<<"b">>>>, <<>>, <<SOp("LPrepend", <<"x">>,
      <<"3">>)>>)>>), SOp("LAppend", <<"x">>, <<"2">>),
      SCond(<<<<<<Label(<<>>, <<"a">>)>>>>>>, <<SOp("LAppend", <<"x">>,
      <<"4">>)>>), SOp("LAppend", <<"x">>, <<"5">>)>>

\* the texts whose operations are followed in their order
OrderTexts ==
    {TxLazy, TxSuffixFirst, TxOrder, TxProduct, TxSuffix, TxSubst,
     TxNested, TxFixedName, TxCondFirst, TxCondLast, TxCondInner, TxCondOuter,
     TxCondNested}

\* six variants whose filters each fail in the variant a of the block before:
\*     variants:
\*       - a:
\*       - b:
\*     variants:
\*       - p1:
\*           only b
\*       - p2:
\*           only b
\*       - p3:
\*           only b
\*       - p4:
\*           only b
\*       - p5:
\*           only b
\*       - p6:
\*           only b
TxSixFail ==
    <<SVariants(<<>>, <<>>, <<Variant(FALSE, <<<<"a">>>>, <<>>, <<>>),
      Variant(FALSE, <<<<"b">>>>, <<>>, <<>>)>>), SVariants(<<>>, <<>>,
      <<Variant(FALSE, <<<<"p", "1">>>>, <<>>, <<SOnly(<<<<<<Label(<<>>,
      <<"b">>)>>>>>>)>>), Variant(FALSE, <<<<"p", "2">>>>, <<>>,
      <<SOnly(<<<<<<Label(<<>>, <<"b">>)>>>>>>)>>), Variant(FALSE, <<<<"p",
      "3">>>>, <<>>, <<SOnly(<<<<<<Label(<<>>, <<"b">>)>>>>>>)>>),
      Variant(FALSE, <<<<"p", "4">>>>, <<>>, <<SOnly(<<<<<<Label(<<>>,
      <<"b">>)>>>>>>)>>), Variant(FALSE, <<<<"p", "5">>>>, <<>>,
      <<SOnly(<<<<<<Label(<<>>, <<"b">>)>>>>>>)>>), Variant(FALSE, <<<<"p",
      "6">>>>, <<>>, <<SOnly(<<<<<<Label(<<>>, <<"b">>)>>>>>>)>>)>>)>>

\* filters of two blocks that fail in the variant a of the first block:
\*     variants:
\*       - a:
\*       - b:
\*     variants:
\*       - m:
\*           only b
\*       - n:
\*     variants:
\*       - p1:
\*       - p2:
\*           only b
\*       - p3:
TxHitBehind ==
    <<SVariants(<<>>, <<>>, <<Variant(FALSE, <<<<"a">>>>, <<>>, <<>>),
      Variant(FALSE, <<<<"b">>>>, <<>>, <<>>)>>), SVariants(<<>>, <<>>,
      <<Variant(FALSE, <<<<"m">>>>, <<>>, <<SOnly(<<<<<<Label(<<>>,
      <<"b">>)>>>>>>)>>), Variant(FALSE, <<<<"n">>>>, <<>>, <<>>)>>),
      SVariants(<<>>, <<>>, <<Variant(FALSE, <<<<"p", "1">>>>, <<>>, <<>>),
      Variant(FALSE, <<<<"p", "2">>>>, <<>>, <<SOnly(<<<<<<Label(<<>>,
      <<"b">>)>>>>>>)>>), Variant(FALSE, <<<<"p", "3">>>>, <<>>, <<>>)>>)>>

\* the texts whose failed cases are followed
EvictTexts ==
    {TxSixFail, TxHitBehind, TxMemo, TxPaths}

(***************************************************************************)
(* Configurations made of assignments only                                 *)
(***************************************************************************)
\* how many assignments such a configuration holds at most
MaxAssign == 2

AssignKeys ==
    {<<"x">>, <<"y">>, <<"x", "_", "m", "a", "x">>, kName}

AssignValues == {<<"1">>, <<"5">>, <<"$", "{", "x", "}">>}

\* the lines "key = value"
AssignStmts == {SOp("LSet", k, v) : k \in AssignKeys, v \in AssignValues}

RECURSIVE SeqsUpTo(_, _)
\* the sequences of at most n elements of S
SeqsUpTo(S, n) ==
    IF n = 0 THEN {<<>>}
    ELSE {<<>>} \cup {<<x>> \o s : x \in S, s \in SeqsUpTo(S, n - 1)}

AssignTexts == SeqsUpTo(AssignStmts, MaxAssign)

(***************************************************************************)
(* The program: one Parser object, the text it is given, the filters added *)
(* at the root, the complete consumptions of get_dicts() and the generator *)
(* that a caller advances step by step                                     *)
(***************************************************************************)
VARIABLES
    parser,     \* the Parser object
    skipdups,   \* the skipdups argument that this user gives to get_dicts()
    text,       \* the texts given to parse_string so far
    filters,    \* the only_filter / no_filter calls made so far
    runs,       \* what each complete consumption of get_dicts() produced
    gen,        \* <<m>> while a generator of get_dicts() is being advanced
    args,       \* the arguments given to a function that is called directly
    result,     \* <<r>> once that function has returned r
    reader,     \* the StrReader object, <<>> when there is none
    lexer       \* the Lexer object that reads from reader, <<>> when none

vars ==
    <<parser, skipdups, text, filters, runs, gen, args, result, reader, lexer>>

\* no StrReader and no Lexer stand alone
NoLexer == reader = <<>> /\ lexer = <<>>

\* no function is called directly
NoCall == args = <<>> /\ result = <<>>

\* how many times get_dicts() is consumed on one Parser
MaxRuns == 2

\* how many root filters are added to one Parser
MaxFilters == 1

\* the values of expand_defaults
ExpandChoices == {{}, {<<"A">>}}

\* the filters given to only_filter and to no_filter: "a" and "b"
FilterA == <<<<<<Label(<<>>, <<"a">>)>>>>>>
FilterB == <<<<<<Label(<<>>, <<"b">>)>>>>>>
RootFilters == {FilterA, FilterB}

\* Parser(defaults=..., expand_defaults=...), nothing parsed yet
Init ==
    /\ \E defaults \in BOOLEAN, expand_defaults \in ExpandChoices :
          /\ defaults \/ expand_defaults = {}
          /\ parser = NewParser(defaults, expand_defaults)
    /\ skipdups \in BOOLEAN
    /\ text = <<>>
    /\ filters = <<>>
    /\ runs = <<>>
    /\ gen = <<>>
    /\ NoCall
    /\ NoLexer

\* what a consumer of the generator has in hand when it stops
RunRecord(m) ==
    [err |-> m.err, out |-> m.out, hits |-> m.hits, leaves |-> m.leaves,
     joined |-> m.joined, sibling |-> m.sibling, cleared |-> m.cleared]

\* parser.parse_string(t), for one of the texts
ParseString(texts) ==
    /\ parser.err = NoError
    /\ text = <<>> /\ filters = <<>> /\ runs = <<>> /\ gen = <<>>
    /\ \E t \in texts :
          /\ parser' = parse_string(parser, t)
          /\ text' = Append(text, t)
    /\ UNCHANGED <<skipdups, filters, runs, gen, args, result,
                 reader, lexer>>

\* parser.only_filter(X)
OnlyFilter ==
    /\ parser.err = NoError
    /\ text # <<>> /\ Len(filters) < MaxFilters /\ runs = <<>>
    /\ \E X \in RootFilters :
          /\ parser' = only_filter(parser, X)
          /\ filters' = Append(filters, [kind |-> "only", filt |-> X])
    /\ UNCHANGED <<skipdups, text, runs, gen, args, result,
                 reader, lexer>>

\* parser.no_filter(X)
NoFilter ==
    /\ parser.err = NoError
    /\ text # <<>> /\ Len(filters) < MaxFilters /\ runs = <<>>
    /\ \E X \in RootFilters :
          /\ parser' = no_filter(parser, X)
          /\ filters' = Append(filters, [kind |-> "no", filt |-> X])
    /\ UNCHANGED <<skipdups, text, runs, gen, args, result,
                 reader, lexer>>

\* the generator has been consumed and left the machine m
Consumed(m) ==
    /\ parser' = AfterGetDicts(parser, m)
    /\ runs' = Append(runs, RunRecord(m))

\* list(parser.get_dicts(skipdups=skipdups)), or the same loop ended by the
\* exception that the generator raises
GetDicts ==
    /\ parser.err = NoError
    /\ text # <<>> /\ Len(runs) < MaxRuns /\ gen = <<>>
    /\ Consumed(get_dicts(parser, skipdups))
    /\ UNCHANGED <<skipdups, text, filters, gen, args, result,
                 reader, lexer>>

Next == ParseString(Texts) \/ OnlyFilter \/ NoFilter \/ GetDicts

Spec == Init /\ [][Next]_vars

(***************************************************************************)
(* The enumeration followed step by step, the failed cases emptied at any  *)
(* point of it                                                             *)
(***************************************************************************)
\* gen = parser.get_dicts(skipdups=skipdups)
Begin ==
    /\ parser.err = NoError
    /\ text # <<>> /\ Len(runs) < MaxRuns /\ gen = <<>>
    /\ gen' = <<Machine(parser, skipdups)>>
    /\ UNCHANGED <<parser, skipdups, text, filters, runs, args, result,
                 reader, lexer>>

\* the generator on top of the stack runs to its next call, yield or return
StepGen ==
    /\ gen # <<>>
    /\ ~Done(gen[1])
    /\ gen' = <<Step(parser, gen[1], TRUE)>>
    /\ UNCHANGED <<parser, skipdups, text, filters, runs, args, result,
                 reader, lexer>>

\* node.failed_cases of every node emptied
Emptied(h) == List([i \in 1..Len(h) |-> [h[i] EXCEPT !.failed_cases = <<>>]])

\* the memo is emptied while the generator is suspended
ClearMemo ==
    /\ gen # <<>>
    /\ ~Done(gen[1])
    /\ Emptied(gen[1].h) # gen[1].h
    /\ gen' = <<[gen[1] EXCEPT !.h = Emptied(@), !.cleared = TRUE]>>
    /\ UNCHANGED <<parser, skipdups, text, filters, runs, args, result,
                 reader, lexer>>

\* StopIteration, or the exception, reaches the consumer
End ==
    /\ gen # <<>>
    /\ Done(gen[1])
    /\ Consumed(gen[1])
    /\ gen' = <<>>
    /\ UNCHANGED <<skipdups, text, filters, args, result,
                 reader, lexer>>

NextMemo == ParseString(MemoTexts) \/ Begin \/ StepGen \/ ClearMemo \/ End

SpecMemo == Init /\ [][NextMemo]_vars

(***************************************************************************)
(* The configurations of assignments, parsed and enumerated                *)
(***************************************************************************)
NextAssign == ParseString(AssignTexts) \/ GetDicts

SpecAssign == Init /\ [][NextAssign]_vars

(***************************************************************************)
(* Parser.join_names called directly on two names                          *)
(***************************************************************************)
\* the names given to join_names
JoinableNames ==
    {<<>>, <<"a">>, <<"a", ".", "b">>, <<"p", ".", "a">>, <<"p", ".", "b">>,
     <<"q", ".", "b">>, <<"a", "b", ".", "c">>, <<"a", "b", ".", "d">>,
     <<"(", "A", "=", "a", ")">>,
     <<"(", "B", "=", "x", ")", ".", "(", "A", "=", "a", ")">>,
     <<"(", "B", "=", "x", ")", ".", "(", "A", "=", "b", ")">>}

\* a Parser, and the two names that join_names is going to be given
InitNames ==
    /\ parser = NewParser(FALSE, {})
    /\ skipdups = TRUE
    /\ text = <<>> /\ filters = <<>> /\ runs = <<>> /\ gen = <<>>
    /\ args \in JoinableNames \X JoinableNames
    /\ result = <<>>
    /\ NoLexer

\* parser.join_names(n1, n2)
JoinNames ==
    /\ Len(args) = 2 /\ result = <<>>
    /\ result' = <<join_names(args[1], args[2])>>
    /\ UNCHANGED <<parser, skipdups, text, filters, runs, gen, args,
                 reader, lexer>>

NextNames == JoinNames

SpecNames == InitNames /\ [][NextNames]_vars

(***************************************************************************)
(* utils.drop_suffixes called directly on a dictionary                     *)
(***************************************************************************)
\* how many keys the dictionary given to drop_suffixes holds at most
MaxKeys == 3

\* the keys of these dictionaries: a, (a, _x), (a, _y), (a, _x, _y),
\* (a_y, _x) and the reserved key name
DropKeys ==
    {PKey(<<"a">>), TKey(<<<<"a">>, <<"_", "x">>>>),
     TKey(<<<<"a">>, <<"_", "y">>>>),
     TKey(<<<<"a">>, <<"_", "x">>, <<"_", "y">>>>),
     TKey(<<<<"a", "_", "y">>, <<"_", "x">>>>), PKey(kName)}

DropValues == {StrV(<<"1">>), StrV(<<"2">>)}

RECURSIVE DictsUpTo(_)
\* the dictionaries of at most n items, in every insertion order
DictsUpTo(n) ==
    IF n = 0 THEN {<<>>}
    ELSE {<<>>} \cup
         {Append(d, [k |-> k, v |-> v]) :
             d \in {e \in DictsUpTo(n - 1) : Len(e) = n - 1},
             k \in DropKeys, v \in DropValues} \cup DictsUpTo(n - 1)

\* a dictionary has no key twice
OneEach(d) == \A i, j \in 1..Len(d) : d[i].k = d[j].k => i = j

\* a Parser left aside, the dictionary and the skipdups argument
InitDrop ==
    /\ parser = NewParser(FALSE, {})
    /\ skipdups \in BOOLEAN
    /\ text = <<>> /\ filters = <<>> /\ runs = <<>> /\ gen = <<>>
    /\ args \in {<<d>> : d \in {e \in DictsUpTo(MaxKeys) : OneEach(e)}}
    /\ result = <<>>
    /\ NoLexer

\* drop_suffixes(d, skipdups)
DropSuffixes ==
    /\ Len(args) = 1 /\ result = <<>>
    /\ result' = <<drop_suffixes(args[1], skipdups)>>
    /\ UNCHANGED <<parser, skipdups, text, filters, runs, gen, args,
                 reader, lexer>>

NextDrop == DropSuffixes

SpecDrop == InitDrop /\ [][NextDrop]_vars

(***************************************************************************)
(* An assignment applied directly to a dictionary                          *)
(***************************************************************************)
\* how many pieces the assigned value is made of at most
MaxPieces == 3

\* the pieces of the values: ${x}, ${y}, ${z}, ${} and a dash
ValuePieces ==
    {<<"$", "{", "x", "}">>, <<"$", "{", "y", "}">>, <<"$", "{", "z", "}">>,
     <<"$", "{", "}">>, <<"-">>}

RECURSIVE ValuesUpTo(_)
\* the values made of at most n pieces
ValuesUpTo(n) ==
    IF n = 0 THEN {<<>>}
    ELSE {<<>>} \cup {p \o v : p \in ValuePieces, v \in ValuesUpTo(n - 1)}

\* a dictionary of string values from its keys and the values
DictOf(keys, values) ==
    List([i \in 1..Len(keys) |-> [k |-> keys[i], v |-> StrV(values[i])]])

kX == PKey(<<"x">>)
kY == PKey(<<"y">>)
kXs == TKey(<<<<"x">>, <<"_", "s">>>>)
kXt == TKey(<<<<"x">>, <<"_", "t">>>>)

\* the dictionaries that the assignment is applied to; z is in none
AssignDicts ==
    {<<>>, DictOf(<<kX>>, <<<<"1">>>>), DictOf(<<kY>>, <<<<"2">>>>),
     DictOf(<<kX, kY>>, <<<<"1">>, <<"2">>>>),
     DictOf(<<kXs>>, <<<<"1">>>>),
     DictOf(<<kXs, kXt, kY>>, <<<<"1">>, <<"3">>, <<"2">>>>)}

\* the key that is assigned
kR == <<"r">>

\* a Parser left aside, the value of the assignment and the dictionary
InitSubst ==
    /\ parser = NewParser(FALSE, {})
    /\ skipdups = TRUE
    /\ text = <<>> /\ filters = <<>> /\ runs = <<>> /\ gen = <<>>
    /\ args \in ValuesUpTo(MaxPieces) \X AssignDicts
    /\ result = <<>>
    /\ NoLexer

\* LSet("r", value).apply_to_dict(d)
SetKey ==
    /\ Len(args) = 2 /\ result = <<>>
    /\ result' = <<LSetApply(Obj("LSet", kR, args[1]), args[2])>>
    /\ UNCHANGED <<parser, skipdups, text, filters, runs, gen, args,
                 reader, lexer>>

NextSubst == SetKey

SpecSubst == InitSubst /\ [][NextSubst]_vars

(***************************************************************************)
(* The texts with conditional blocks, enumerated step by step              *)
(***************************************************************************)
NextCond == ParseString(CondTexts) \/ Begin \/ StepGen \/ End

SpecCond == Init /\ [][NextCond]_vars

(***************************************************************************)
(* One variants block whose header names default variants                  *)
(***************************************************************************)
\* how many [default=NAME] entries the header holds at most
MaxMeta == 2

\* the names given by the entries: a, b, z, a.b and a.z
MetaNames ==
    {<<<<"a">>>>, <<<<"b">>>>, <<<<"z">>>>, <<<<"a">>, Dot, <<"b">>>>,
     <<<<"a">>, Dot, <<"z">>>>}

\* variants A [default=...]...: with the variants a and b
MetaTexts ==
    {<<SVariants(<<"A">>, meta,
                 <<Variant(FALSE, <<<<"a">>>>, <<>>, <<>>),
                   Variant(FALSE, <<<<"b">>>>, <<>>, <<>>)>>)>> :
        meta \in SeqsUpTo(MetaNames, MaxMeta)}

NextMeta == ParseString(MetaTexts) \/ GetDicts

SpecMeta == Init /\ [][NextMeta]_vars

(***************************************************************************)
(* The texts whose operations are followed in their order                  *)
(***************************************************************************)
NextOrder == ParseString(OrderTexts) \/ GetDicts

SpecOrder == Init /\ [][NextOrder]_vars

(***************************************************************************)
(* Blocks that hold suffix statements and assignments                      *)
(***************************************************************************)
\* how many statements such a block holds at most
MaxBody == 3

kM == <<"m">>
TagA == <<"_", "a">>
TagB == <<"_", "b">>

\* suffix _a, suffix _b, k = 1 and m = ${k}
BodyStmts ==
    {SSuffix(TagA), SSuffix(TagB), SOp("LSet", <<"k">>, <<"1">>),
     SOp("LSet", kM, <<"$", "{", "k", "}">>)}

\* variants: with the variants a and b, the block body under a
TwoVariants(body) ==
    SVariants(<<>>, <<>>, <<Variant(FALSE, <<<<"a">>>>, <<>>, body),
                            Variant(FALSE, <<<<"b">>>>, <<>>, <<>>)>>)

\* the block as the whole text, as the block of the variant a, as the block
\* of the condition a: and as a text with the variants after its first line
SuffixTexts ==
    UNION {{body,
            <<TwoVariants(body)>>,
            <<TwoVariants(<<>>), SCond(FilterA, body)>>,
            IF body = <<>> THEN <<TwoVariants(<<>>)>>
            ELSE <<Head(body), TwoVariants(<<>>)>> \o Tail(body)} :
           body \in SeqsUpTo(BodyStmts, MaxBody)}

NextSuffix == ParseString(SuffixTexts) \/ GetDicts

SpecSuffix == Init /\ [][NextSuffix]_vars

(***************************************************************************)
(* apply_suffix_bounds called on a dictionary of integer sizes             *)
(***************************************************************************)
\* how many keys such a dictionary holds at most
MaxSized == 3

kKey == <<"k">>

\* the keys k, k_max, k_min and k_fixed
SizedKeys == {kKey, kKey \o sMax, kKey \o sMin, kKey \o sFixed}

SizedValues == {<<"1">>, <<"3">>, <<"5">>}

RECURSIVE SizedUpTo(_)
\* the dictionaries of at most n of these keys, in every insertion order
SizedUpTo(n) ==
    IF n = 0 THEN {<<>>}
    ELSE SizedUpTo(n - 1) \cup
         {Append(d, [k |-> PKey(k), v |-> StrV(v)]) :
             d \in {e \in SizedUpTo(n - 1) : Len(e) = n - 1},
             k \in SizedKeys, v \in SizedValues}

\* a Parser left aside and the dictionary
InitBounds ==
    /\ parser = NewParser(FALSE, {})
    /\ skipdups = TRUE
    /\ text = <<>> /\ filters = <<>> /\ runs = <<>> /\ gen = <<>>
    /\ args \in {<<d>> : d \in {e \in SizedUpTo(MaxSized) : OneEach(e)}}
    /\ result = <<>>
    /\ NoLexer

\* apply_suffix_bounds(d)
ApplySuffixBounds ==
    /\ Len(args) = 1 /\ result = <<>>
    /\ result' = <<apply_suffix_bounds(args[1])>>
    /\ UNCHANGED <<parser, skipdups, text, filters, runs, gen, args,
                 reader, lexer>>

NextBounds == ApplySuffixBounds

SpecBounds == InitBounds /\ [][NextBounds]_vars

(***************************************************************************)
(* Blocks of assignment statements                                         *)
(***************************************************************************)
\* how many statements such a block holds at most
MaxBlock == 3

kAny == <<".", "*">>

\* x = 1, x += 0, x <= 2, x ~= 3, .* = 1, .* ?= 5, .* ?+= 4 and .* ?<= 6
BlockStmts ==
    {SOp("LSet", <<"x">>, <<"1">>), SOp("LAppend", <<"x">>, <<"0">>),
     SOp("LPrepend", <<"x">>, <<"2">>), SOp("LLazySet", <<"x">>, <<"3">>),
     SOp("LSet", kAny, <<"1">>), SOp("LRegExpSet", kAny, <<"5">>),
     SOp("LRegExpAppend", kAny, <<"4">>), SOp("LRegExpPrepend", kAny, <<"6">>)}

BlockTexts == SeqsUpTo(BlockStmts, MaxBlock)

NextBlock == ParseString(BlockTexts) \/ GetDicts

SpecBlock == Init /\ [][NextBlock]_vars

(***************************************************************************)
(* parse_filter called on a list of tokens                                 *)
(***************************************************************************)
\* how many tokens the list holds at most
MaxTokens == 4

\* the identifiers a and b, ".", ",", a blank, "(", ")" and "="
FilterTokens ==
    {Ident(<<"a">>), Ident(<<"b">>), Tok("LDot"), Tok("LComa"), Tok("LWhite"),
     Tok("LLRBracket"), Tok("LRRBracket"), Tok("LSet")}

\* a Parser left aside and the list of tokens
InitFilter ==
    /\ parser = NewParser(FALSE, {})
    /\ skipdups = TRUE
    /\ text = <<>> /\ filters = <<>> /\ runs = <<>> /\ gen = <<>>
    /\ args \in {<<toks>> : toks \in SeqsUpTo(FilterTokens, MaxTokens)}
    /\ result = <<>>
    /\ NoLexer

\* Parser.parse_filter(lexer, tokens)
ParseFilter ==
    /\ Len(args) = 1 /\ result = <<>>
    /\ result' = <<parse_filter(args[1])>>
    /\ UNCHANGED <<parser, skipdups, text, filters, runs, gen, args,
                 reader, lexer>>

NextFilter == ParseFilter

SpecFilter == InitFilter /\ [][NextFilter]_vars

(***************************************************************************)
(* A filter judged on a context and a set of descendant labels             *)
(***************************************************************************)
\* how many labels a context holds at most
MaxCtx == 3

\* how many labels a sequence of a filter holds at most
MaxAdjacent == 2

\* the labels a, b and (A=a)
JudgedLabels ==
    {Label(<<>>, <<"a">>), Label(<<>>, <<"b">>), Label(<<"A">>, <<"a">>)}

\* the sequences of a filter
JudgedBlocks == SeqsUpTo(JudgedLabels, MaxAdjacent) \ {<<>>}

\* the sequences of one label
JudgedSingles == {<<l>> : l \in JudgedLabels}

\* the filters: one disjunct of one sequence, one disjunct of a sequence and
\* a sequence of one label, or two disjuncts of the same
JudgedFilters ==
    {<<<<b>>>> : b \in JudgedBlocks}
    \cup {<<<<b, c>>>> : b \in JudgedBlocks, c \in JudgedSingles}
    \cup {<<<<b>>, <<c>>>> : b \in JudgedBlocks, c \in JudgedSingles}

\* a Parser left aside, and the filter, the context and the descendant labels
InitJudge ==
    /\ parser = NewParser(FALSE, {})
    /\ skipdups = TRUE
    /\ text = <<>> /\ filters = <<>> /\ runs = <<>> /\ gen = <<>>
    /\ \E f \in JudgedFilters, ctx \in SeqsUpTo(JudgedLabels, MaxCtx),
          labels \in SUBSET JudgedLabels :
            args = <<f, ctx, labels>>
    /\ result = <<>>
    /\ NoLexer

\* what the filter of class cls answers
Answers(cls, filt, ctx, labels) ==
    [requires_action |-> requires_action(FilterObj(cls, filt, <<>>), ctx, labels),
     is_irrelevant |-> is_irrelevant(FilterObj(cls, filt, <<>>), ctx, labels)]

\* f.match(ctx, ctx_set), f.might_match(ctx, ctx_set, labels), and
\* requires_action and is_irrelevant of OnlyFilter(f) and of NoFilter(f)
Judge ==
    /\ Len(args) = 3 /\ result = <<>>
    /\ result' = <<[match |-> FilterMatch(args[1], args[2]),
                    might_match |-> FilterMightMatch(args[1], args[2], args[3]),
                    only |-> Answers("OnlyFilter", args[1], args[2], args[3]),
                    no |-> Answers("NoFilter", args[1], args[2], args[3])]>>
    /\ UNCHANGED <<parser, skipdups, text, filters, runs, gen, args,
                 reader, lexer>>

NextJudge == Judge

SpecJudge == InitJudge /\ [][NextJudge]_vars

(***************************************************************************)
(* Several texts parsed by one Parser, with filters in between             *)
(***************************************************************************)
\* how many calls of parse_string, only_filter and no_filter one Parser gets
MaxCalls == 3

\* the texts parsed one after the other
TreeTexts == {TxProduct, TxDefault, TxNested, TxFixedName, TxCond, TxOnly}

\* parser.parse_string(t) on a Parser that may hold a tree already
ParseAgain ==
    /\ parser.err = NoError
    /\ Len(text) + Len(filters) < MaxCalls /\ runs = <<>> /\ gen = <<>>
    /\ \E t \in TreeTexts :
          /\ parser' = parse_string(parser, t)
          /\ text' = Append(text, t)
    /\ UNCHANGED <<skipdups, filters, runs, gen, args, result,
                 reader, lexer>>

\* parser.only_filter(X), whatever was parsed
OnlyAgain ==
    /\ parser.err = NoError
    /\ Len(text) + Len(filters) < MaxCalls /\ runs = <<>> /\ gen = <<>>
    /\ \E X \in RootFilters :
          /\ parser' = only_filter(parser, X)
          /\ filters' = Append(filters, [kind |-> "only", filt |-> X])
    /\ UNCHANGED <<skipdups, text, runs, gen, args, result,
                 reader, lexer>>

\* parser.no_filter(X), whatever was parsed
NoAgain ==
    /\ parser.err = NoError
    /\ Len(text) + Len(filters) < MaxCalls /\ runs = <<>> /\ gen = <<>>
    /\ \E X \in RootFilters :
          /\ parser' = no_filter(parser, X)
          /\ filters' = Append(filters, [kind |-> "no", filt |-> X])
    /\ UNCHANGED <<skipdups, text, runs, gen, args, result,
                 reader, lexer>>

NextLabels == ParseAgain \/ OnlyAgain \/ NoAgain

SpecLabels == Init /\ [][NextLabels]_vars

(***************************************************************************)
(* The failed cases of the nodes, followed through the enumerations        *)
(***************************************************************************)
NextEvict == ParseString(EvictTexts) \/ Begin \/ StepGen \/ End

SpecEvict == Init /\ [][NextEvict]_vars

(***************************************************************************)
(* A StrReader asked for its lines, with lines pushed back                 *)
(***************************************************************************)
\* how many lines a source holds at most
MaxLines == 3

\* how many calls one StrReader gets
MaxReads == 3

\* the lines of the sources: a line, an indented line with a blank behind
\* it, an empty line, a comment and a line indented by a tab
RawLines ==
    {<<"a">>, <<" ", "b", " ">>, <<>>, <<"#", "c">>, <<"\t", "d">>}

\* the lines, each ended by a line break
SourceOf(raw) == Flatten(List([i \in 1..Len(raw) |-> Append(raw[i], NewLine)]))

Sources == {SourceOf(raw) : raw \in SeqsUpTo(RawLines, MaxLines)}

\* the prev_indent given to get_next_line
PrevIndents == {-1, 0}

\* the lines pushed back: a line with a blank before it, and a blank line
PushedLines == {<<" ", "n">>, <<" ">>}

\* reader = StrReader(s); args and result are the calls made and what the
\* get_next_line calls returned
InitReader ==
    /\ parser = NewParser(FALSE, {})
    /\ skipdups = TRUE
    /\ text = <<>> /\ filters = <<>> /\ runs = <<>> /\ gen = <<>>
    /\ NoCall
    /\ \E s \in Sources : reader = StrReader(s)
    /\ lexer = <<>>

\* reader.get_next_line(prev_indent)
GetNextLine ==
    /\ reader # <<>> /\ lexer = <<>> /\ Len(args) < MaxReads
    /\ \E prev_indent \in PrevIndents :
          /\ reader' = get_next_line(reader, prev_indent).reader
          /\ result' = Append(result, get_next_line(reader, prev_indent).ret)
          /\ args' = Append(args, [op |-> "get_next_line",
                                   prev_indent |-> prev_indent])
    /\ UNCHANGED <<parser, skipdups, text, filters, runs, gen, lexer>>

\* reader.set_next_line(line, 0, 1)
SetNextLine ==
    /\ reader # <<>> /\ lexer = <<>> /\ Len(args) < MaxReads
    /\ \E line \in PushedLines :
          /\ reader' = set_next_line(reader, line, 0, 1)
          /\ args' = Append(args, [op |-> "set_next_line", line |-> line,
                                   indent |-> 0, linenum |-> 1])
    /\ UNCHANGED <<parser, skipdups, text, filters, runs, gen, result, lexer>>

NextReader == GetNextLine \/ SetNextLine

SpecReader == InitReader /\ [][NextReader]_vars

(***************************************************************************)
(* A Lexer asked for its tokens                                            *)
(***************************************************************************)
\* how many lines a source of the Lexer holds at most
MaxLexed == 2

\* how many tokens one Lexer is asked for
MaxProduced == 8

\* how many set_prev_indent calls one Lexer gets
MaxSets == 1

\* the lines of the sources: an assignment, an indented one, a filter, the
\* head of a variants block, a variant, and a line with a character that
\* no token has
LexedLines ==
    {<<"a", " ", "=", " ", "1">>, <<" ", " ", "b", " ", "+", "=", " ", "2">>,
     <<"o", "n", "l", "y", " ", "a">>,
     <<"v", "a", "r", "i", "a", "n", "t", "s", ":">>,
     <<" ", " ", "-", " ", "c", ":">>, <<"x", " ", "$">>}

LexedSources == {SourceOf(raw) : raw \in SeqsUpTo(LexedLines, MaxLexed)}

\* lexer = Lexer(StrReader(s)); args are the set_prev_indent calls made and
\* result the tokens produced
InitLexer ==
    /\ parser = NewParser(FALSE, {})
    /\ skipdups = TRUE
    /\ text = <<>> /\ filters = <<>> /\ runs = <<>> /\ gen = <<>>
    /\ NoCall
    /\ \E s \in LexedSources :
          /\ reader = StrReader(s)
          /\ lexer = <<Lexer(StrReader(s))>>

\* lexer.set_prev_indent(prev_indent)
SetPrevIndent ==
    /\ lexer # <<>> /\ lexer[1].err = NoError
    /\ Len(args) < MaxSets /\ Len(result) < MaxProduced
    /\ \E prev_indent \in {-1, 2} :
          /\ lexer' = <<set_prev_indent(lexer[1], prev_indent)>>
          /\ args' = Append(args, [op |-> "set_prev_indent",
                                   prev_indent |-> prev_indent])
    /\ UNCHANGED <<parser, skipdups, text, filters, runs, gen, result, reader>>

\* token = next(lexer.generator), or the exception it raises
NextToken ==
    /\ lexer # <<>> /\ lexer[1].err = NoError
    /\ Len(result) < MaxProduced
    /\ lexer' = <<next_token(lexer[1], reader).lexer>>
    /\ reader' = next_token(lexer[1], reader).reader
    /\ result' = result \o next_token(lexer[1], reader).token
    /\ UNCHANGED <<parser, skipdups, text, filters, runs, gen, args>>

NextLexer == SetPrevIndent \/ NextToken

SpecLexer == InitLexer /\ [][NextLexer]_vars

(***************************************************************************)
(* Properties                                                              *)
(***************************************************************************)
\* the names of the dictionaries of a list
Names(out) == {DGet(out[i], PKey(kName)).s : i \in 1..Len(out)}

RECURSIVE WithFilters(_, _)
\* the root filters fs added to the parser p, in their order
WithFilters(p, fs) ==
    IF fs = <<>> THEN p
    ELSE WithFilters(IF Head(fs).kind = "only" THEN only_filter(p, Head(fs).filt)
                     ELSE no_filter(p, Head(fs).filt),
                     Tail(fs))

\* a Parser with the options of parser, the text t parsed and the root
\* filters fs added
Reparsed(t, fs) ==
    WithFilters(parse_string(NewParser(parser.defaults, parser.expand_defaults), t), fs)

RECURSIVE NodeStmts(_)
\* the statements of a text that fill a node, those of the blocks under the
\* variants included and those of the conditional blocks left out
NodeStmts(stmts) ==
    IF stmts = <<>> THEN <<>>
    ELSE <<Head(stmts)>>
         \o NodeStmts(Flatten(List([i \in 1..Len(Head(stmts).variants) |->
                                      Head(stmts).variants[i].body])))
         \o NodeStmts(Tail(stmts))

RECURSIVE AllStmts(_)
\* all the statements of a text
AllStmts(stmts) ==
    IF stmts = <<>> THEN <<>>
    ELSE <<Head(stmts)>>
         \o AllStmts(Head(stmts).body)
         \o AllStmts(Flatten(List([i \in 1..Len(Head(stmts).variants) |->
                                     Head(stmts).variants[i].body])))
         \o AllStmts(Tail(stmts))

\* the text has a variants block
HasVariants(stmts) == \E i \in 1..Len(stmts) : stmts[i].kind = "variants"

\* the key ends with one of the suffixes that apply_suffix_bounds reads
IsBoundKey(name) ==
    EndsWith(name, sMax) \/ EndsWith(name, sMin) \/ EndsWith(name, sFixed)

\* the text operates on a key made of a reserved key and a bound suffix
BoundsReserved(stmts) ==
    \E i \in 1..Len(AllStmts(stmts)) :
        /\ AllStmts(stmts)[i].kind = "op"
        /\ \E r \in reserved_keys, suf \in {sMax, sMin, sFixed} :
              AllStmts(stmts)[i].name = r \o suf

\* C1: after parsing, two successive complete consumptions of get_dicts()
\* on the same Parser yield identical sequences of dictionaries (same
\* length, same order, same keys and values), suffix and join statements
\* included.
C1_Replayable ==
    \A i, j \in 1..Len(runs) :
        runs[i].err = runs[j].err /\ DictsEq(runs[i].out, runs[j].out)

\* the names that the run emitted are among those that the machine base
\* emitted, provided that base ended without an exception
NamesWithin(run, base) ==
    base.err = NoError => Names(run.out) \subseteq Names(base.out)

\* only_filter(X) was the last root filter added, and get_dicts() consumed
OnlyAdded ==
    /\ filters # <<>>
    /\ filters[Len(filters)].kind = "only"
    /\ runs # <<>>

\* the enumeration of the same text without the last root filter
WithoutLastFilter ==
    get_dicts(Reparsed(text[1], SubSeq(filters, 1, Len(filters) - 1)), skipdups)

AtVisit(m) == ~Done(m) /\ Top(m).kind = "P" /\ Top(m).pc = "start"

\* the failed case that cuts the visit short, 0 if none
HitAt(m) ==
    FirstFailedCase(m.h[Top(m).node].failed_cases, m.h[Top(m).node].content,
                    Top(m).content, Top(m).ctx \o m.h[Top(m).node].name,
                    m.h[Top(m).node].labels)

\* the visit, when the failed cases are not consulted, ends at the filters
VisitFails(m) ==
    ~ProcessExternal(Top(m), Top(m).ctx \o m.h[Top(m).node].name,
                     m.h[Top(m).node].labels,
                     process_content(m.h[Top(m).node].content, 1, "internal",
                                     Top(m).ctx \o m.h[Top(m).node].name,
                                     m.h[Top(m).node].labels, PCStart)).ok

\* the machine that never consults the failed cases ends as m did
AsUnconsulted(m, ref) == m.err = ref.err /\ m.out = ref.out

\* C4: the failed_cases memo is a pure cache: an enumeration in which the
\* failed cases are emptied at any point, or never consulted, emits the
\* same sequence of dictionaries as the one that uses them, and a memo
\* hit only prunes a visit that would have emitted nothing.
C4_MemoIsCache ==
    /\ (gen # <<>> /\ Done(gen[1]))
          => AsUnconsulted(gen[1], Run(parser, Machine(parser, skipdups), FALSE))
    /\ (gen # <<>> /\ AtVisit(gen[1]) /\ HitAt(gen[1]) # 0) => VisitFails(gen[1])

\* an enumeration that ended after memo hits and after the memo was emptied
C4_HitAndCleared ==
    /\ gen # <<>>
    /\ Done(gen[1])
    /\ gen[1].hits > 0
    /\ gen[1].cleared
    /\ gen[1].out # <<>>

\* d holds the key k with a value of type t
HasTyped(d, k, t) == DHas(d, PKey(k)) /\ DGet(d, PKey(k)).t = t

ReservedKeys(d, stmts) ==
    /\ HasTyped(d, kName, "str")
    /\ HasTyped(d, kShortname, "str")
    /\ DHas(d, PKey(kDep))
    /\ HasVariants(stmts) =>
          DHas(d, PKey(kNameMapFile)) /\ DHas(d, PKey(kShortNameMapFile))
    /\ ~BoundsReserved(stmts) =>
          /\ DGet(d, PKey(kDep)).t = "list"
          /\ \A k \in {kNameMapFile, kShortNameMapFile} :
                IF HasVariants(stmts) THEN HasTyped(d, k, "map")
                ELSE ~DHas(d, PKey(k))

C6_ReservedUntouched ==
    \A r \in 1..Len(runs) :
        ~runs[r].joined =>
            \A i \in 1..Len(runs[r].out) :
                /\ i <= Len(runs[r].leaves)
                /\ \A k \in {kName, kShortname, kDep} :
                      /\ DHas(runs[r].out[i], PKey(k))
                      /\ DGet(runs[r].out[i], PKey(k))
                            = DGet(runs[r].leaves[i], PKey(k))

\* C7: under defaults=true, at each visit of an axis that is not listed in
\* expand_defaults, once its default child has yielded a variant no
\* sibling yields any for that context.
C7_DefaultExcludesSiblings ==
    parser.defaults => \A r \in 1..Len(runs) : ~runs[r].sibling

RECURSIVE Sequential(_, _)
\* the assignments applied one after the other to the dictionary d
Sequential(stmts, d) ==
    IF stmts = <<>> THEN d
    ELSE Sequential(Tail(stmts),
                    IF Head(stmts).name \in reserved_keys THEN d
                    ELSE DSet(d, PKey(Head(stmts).name),
                              StrV(Substitution(Head(stmts).value, d))))

\* the keys of d that are not reserved, with their values
UserPart(d) == SelectSeq(d, LAMBDA item : ~IsReserved(item.k))

\* the run yielded one dictionary, whose user keys are those of the
\* assignments applied in their order
AssignedOnly(run, stmts) ==
    /\ run.err = NoError
    /\ Len(run.out) = 1
    /\ DictEq(UserPart(run.out[1]), Sequential(stmts, <<>>))

\* C8 as stated: for a text of assignments, whatever the key names,
\* get_dicts() yields exactly one dictionary whose non-reserved keys are
\* the result of the assignments applied in source order.
C8_AnyKeys ==
    \A r \in 1..Len(runs) : AssignedOnly(runs[r], text[1])

\* C8: for a text of assignments none of whose keys ends with _max, _min
\* or _fixed, get_dicts() yields exactly one dictionary whose non-reserved
\* keys are the result of the assignments applied in source order.
C8_PlainKeys ==
    (text # <<>> /\ \A i \in 1..Len(text[1]) : ~IsBoundKey(text[1][i].name))
        => \A r \in 1..Len(runs) : AssignedOnly(runs[r], text[1])

\* a key assigned twice with two values, then enumerated
C8_LastWins ==
    /\ runs # <<>>
    /\ Len(text[1]) = 2
    /\ text[1][1].name = <<"x">>
    /\ text[1][2].name = <<"x">>
    /\ text[1][1].value # text[1][2].value
    /\ runs[1].out # <<>>

RECURSIVE JoinToOnly(_)
\* the text with every join statement replaced, where it stands, by an
\* only statement of the same filter
JoinToOnly(stmts) ==
    List([i \in 1..Len(stmts) |->
        IF stmts[i].kind = "join" THEN SOnly(stmts[i].filt)
        ELSE [stmts[i] EXCEPT
                 !.body = JoinToOnly(@),
                 !.variants =
                     List([j \in 1..Len(stmts[i].variants) |->
                         [stmts[i].variants[j] EXCEPT !.body = JoinToOnly(@)]])]])

\* the join statements among stmts
JoinStmts(stmts) == SelectSeq(stmts, LAMBDA s : s.kind = "join")

\* the text has one join statement, whose filter has one clause
OneJoin(stmts) ==
    /\ Len(JoinStmts(AllStmts(stmts))) = 1
    /\ Len(JoinStmts(AllStmts(stmts))[1].filt) = 1

\* the enumeration run ended as the machine alt did
SameRun(run, alt) == run.err = alt.err /\ run.out = alt.out

\* C9: a join statement whose filter has a single clause emits, in every
\* tree and context, the same sequence of dictionaries as an only
\* statement of that filter placed where the join stands.
C9_JoinIsOnly ==
    (runs # <<>> /\ OneJoin(text[1]))
        => SameRun(runs[1], get_dicts(Reparsed(JoinToOnly(text[1]), filters), skipdups))

\* a join statement of the text repeats a clause
RepeatsClause(stmts) ==
    \E i \in 1..Len(NodeStmts(stmts)) :
        /\ NodeStmts(stmts)[i].kind = "join"
        /\ Len(NodeStmts(stmts)[i].filt) = 2
        /\ NodeStmts(stmts)[i].filt[1] = NodeStmts(stmts)[i].filt[2]

\* C10: a join that repeats the same clause completes without error and,
\* when one variant matches the clause, emits exactly one dictionary.
C10_RepeatedJoin ==
    (runs # <<>> /\ filters = <<>> /\ RepeatsClause(text[1]))
        => runs[1].err = NoError /\ Len(runs[1].out) = 1

\* the text has one join statement, and it stands at the root
RootJoin(stmts) ==
    /\ Len(JoinStmts(AllStmts(stmts))) = 1
    /\ Len(JoinStmts(stmts)) = 1

\* the text has no suffix statement
NoSuffix(stmts) ==
    \A i \in 1..Len(AllStmts(stmts)) : AllStmts(stmts)[i].kind # "suffix"

\* the text with its root join replaced by an only statement of clause i
OnlyClause(stmts, i) ==
    List([k \in 1..Len(stmts) |->
        IF stmts[k].kind = "join" THEN SOnly(<<stmts[k].filt[i]>>) ELSE stmts[k]])

\* the sequences emitted for only c1, ..., only cn
Factors(stmts) ==
    List([i \in 1..Len(JoinStmts(stmts)[1].filt) |->
        get_dicts(Reparsed(OnlyClause(stmts, i), filters), skipdups).out])

RECURSIVE Cross(_)
\* the cross product of the factors, the first varying slowest; in a merged
\* dictionary the later factor overwrites the earlier
Cross(factors) ==
    IF Len(factors) = 1 THEN factors[1]
    ELSE Flatten(List([i \in 1..Len(factors[1]) |->
             List([j \in 1..Len(Cross(Tail(factors))) |->
                 DUpdate(factors[1][i], Cross(Tail(factors))[j])])]))

\* the dictionaries out are those of the product, user key by user key
IsCross(out, product) ==
    /\ Len(out) = Len(product)
    /\ \A i \in 1..Len(out) :
          i <= Len(product) => DictEq(UserPart(out[i]), UserPart(product[i]))

\* C11: for a node with join clauses c1 ... cn, the emitted sequence is the
\* cross product of the sequences emitted for only c1, ..., only cn in that
\* order, c1 varying slowest: its length is the product of their lengths,
\* and in a merged dictionary a key takes the value of the latest clause
\* that holds it.
C11_JoinIsCrossProduct ==
    (runs # <<>> /\ RootJoin(text[1]) /\ NoSuffix(text[1]))
        => runs[1].err = NoError /\ IsCross(runs[1].out, Cross(Factors(text[1])))

(***************************************************************************)
(* The name of a joined variant                                            *)
(***************************************************************************)
RECURSIVE CommonLen(_, _)
\* the length of the longest common prefix of two strings
CommonLen(a, b) ==
    IF a = <<>> \/ b = <<>> \/ Head(a) # Head(b) THEN 0
    ELSE 1 + CommonLen(Tail(a), Tail(b))

RECURSIVE LastDot(_)
\* the position of the last "." of a string, 0 when it has none
LastDot(s) ==
    IF s = <<>> THEN 0
    ELSE IF s[Len(s)] = "." THEN Len(s)
    ELSE LastDot(SubSeq(s, 1, Len(s) - 1))

\* the longest common prefix of two names, cut back to its last "."
DottedPrefix(n1, n2) ==
    LET d == LastDot(SubSeq(n1, 1, CommonLen(n1, n2)))
    IN IF d = 0 THEN <<>> ELSE SubSeq(n1, 1, d - 1)

\* a name without the leading characters p
WithoutLeading(p, n) == SubSeq(n, Len(p) + 1, Len(n))

\* the joined name as it is described
DescribedName(n1, n2) ==
    LET p == DottedPrefix(n1, n2)
    IN IF p # <<>> THEN p \o WithoutLeading(p, n1) \o WithoutLeading(p, n2)
       ELSE n1 \o Dot \o n2

\* C12: for all names n1 and n2, equal names, a name that is a prefix of the
\* other, empty names and names with labelled axes included, join_names
\* returns the common dotted prefix p followed by both names without their
\* leading p, or n1 + "." + n2 when p is empty
C12_JoinedName ==
    result # <<>> =>
        /\ result[1].ok
        /\ result[1].s = DescribedName(args[1], args[2])

(***************************************************************************)
(* A key set, suffixed in a variant and used in a later value              *)
(***************************************************************************)
kK == <<"k">>
kKS == <<"k", "_", "s">>
kMsg == <<"m", "s", "g">>
Bye == StrV(<<"b", "y", "e">>)

\* Parser() without options, no filter added at the root
PlainParser == ~parser.defaults /\ parser.expand_defaults = {} /\ filters = <<>>

\* the dictionary holds the string value v under the plain key k
Holds(d, k, v) == DHas(d, PKey(k)) /\ DGet(d, PKey(k)) = v

\* C13 as stated: for the text TxSubst, get_dicts() with default options
\* yields exactly one variant whose dictionary has k_s = bye and msg = bye.
C13_SuffixedKey ==
    (runs # <<>> /\ text[1] = TxSubst /\ PlainParser /\ skipdups) =>
        /\ runs[1].err = NoError
        /\ Len(runs[1].out) = 1
        /\ Holds(runs[1].out[1], kKS, Bye)
        /\ Holds(runs[1].out[1], kMsg, Bye)

\* C13: for the text TxSubst every get_dicts() yields exactly one variant,
\* whose dictionary has msg = bye; the first enumeration holds bye under
\* the plain key k and has no key k_s when skipdups is true (the default),
\* and holds it under k_s, without a key k, when skipdups is false.
C13_PlainKey ==
    (text # <<>> /\ text[1] = TxSubst /\ PlainParser) =>
        /\ \A r \in 1..Len(runs) :
              /\ runs[r].err = NoError
              /\ Len(runs[r].out) = 1
              /\ Holds(runs[r].out[1], kMsg, Bye)
        /\ runs # <<>> =>
              IF skipdups
              THEN /\ Holds(runs[1].out[1], kK, Bye)
                   /\ ~DHas(runs[1].out[1], PKey(kKS))
              ELSE /\ Holds(runs[1].out[1], kKS, Bye)
                   /\ ~DHas(runs[1].out[1], PKey(kK))

\* the text TxSubst enumerated with the default options
C13_Enumerated ==
    /\ runs # <<>>
    /\ text[1] = TxSubst
    /\ PlainParser
    /\ skipdups
    /\ Len(runs[1].out) = 1
    /\ Holds(runs[1].out[1], kK, Bye)

(***************************************************************************)
(* The flattening of the suffixed keys                                     *)
(***************************************************************************)
\* every key of d that shares the base of the key at position i has its value
AllAlike(d, i) ==
    \A j \in 1..Len(d) : d[j].k.p[1] = d[i].k.p[1] => d[j].v = d[i].v

\* the plain key of the base of the key at position i is in d, with its value
BaseAlike(d, i) ==
    \E j \in 1..Len(d) :
        ~d[j].k.tup /\ d[j].k.p[1] = d[i].k.p[1] /\ d[j].v = d[i].v

\* base followed by sN ... s1, for the key (base, s1, ..., sN)
SuffixedName(k) == Flatten(<<k.p[1]>> \o Reverse(Tail(k.p)))

\* the name under which the description puts the key at position i
DescribedKey(d, skip, i) ==
    IF skip /\ AllAlike(d, i) THEN d[i].k.p[1] ELSE SuffixedName(d[i].k)

\* the name under which the key at position i ends
FlatKey(d, skip, i) ==
    IF skip /\ (BaseAlike(d, i) \/ AllAlike(d, i)) THEN d[i].k.p[1]
    ELSE SuffixedName(d[i].k)

\* no suffixed key after position i ends under the same name
LastOfName(d, skip, i) ==
    \A j \in (i + 1)..Len(d) :
        d[j].k.tup => FlatKey(d, skip, j) # FlatKey(d, skip, i)

\* C14 as stated: every suffixed key (base, s1, ..., sN) is renamed to base
\* when skipdups is true and every key sharing the base has the same value,
\* and to base followed by sN ... s1 otherwise.
C14_Renamed ==
    result # <<>> =>
        \A i \in 1..Len(args[1]) :
            args[1][i].k.tup =>
                Holds(result[1], DescribedKey(args[1], skipdups, i),
                      args[1][i].v)

\* C14: the result has no suffixed key. The value of a suffixed key (base,
\* s1, ..., sN) is held under the plain key base when skipdups is true and
\* either the plain key base has that value or every key sharing the base
\* has it, and under base followed by sN ... s1 otherwise, unless a later
\* suffixed key ends under the same name. Two keys (base, s1) and (base, s2)
\* of different values and no plain key base give base s1 and base s2 and
\* no key base.
C14_Flattened ==
    result # <<>> =>
        /\ \A i \in 1..Len(result[1]) : ~result[1][i].k.tup
        /\ \A i \in 1..Len(args[1]) :
              (args[1][i].k.tup /\ LastOfName(args[1], skipdups, i)) =>
                  Holds(result[1], FlatKey(args[1], skipdups, i),
                        args[1][i].v)
        /\ \A i, j \in 1..Len(args[1]) :
              (/\ Len(args[1]) = 2
               /\ Len(args[1][i].k.p) = 2 /\ Len(args[1][j].k.p) = 2
               /\ args[1][i].k.p[1] = args[1][j].k.p[1]
               /\ args[1][i].v # args[1][j].v) =>
                  /\ Len(result[1]) = 2
                  /\ ~DHas(result[1], PKey(args[1][i].k.p[1]))

\* a dictionary with the keys (a, _x, _y) and (a, _x) of two values,
\* flattened
C14_TwoSuffixes ==
    /\ result # <<>>
    /\ Len(args[1]) = 2
    /\ Len(args[1][1].k.p) = 3
    /\ Len(args[1][2].k.p) = 2
    /\ args[1][1].k.p[1] = args[1][2].k.p[1]
    /\ args[1][1].v # args[1][2].v
    /\ Len(result[1]) = 2

(***************************************************************************)
(* The product of successive variants blocks                               *)
(***************************************************************************)
\* the variants blocks of a text, in the order of their declaration
Blocks(stmts) == SelectSeq(stmts, LAMBDA s : s.kind = "variants")

\* the text is made of assignments and of variants blocks whose variants
\* hold assignments and suffixes: no filter, no condition, no nested block
Successive(stmts) ==
    /\ Blocks(stmts) # <<>>
    /\ \A i \in 1..Len(stmts) : stmts[i].kind \in {"op", "variants"}
    /\ \A i \in 1..Len(AllStmts(stmts)) :
          AllStmts(stmts)[i].kind \in {"op", "variants", "suffix"}
    /\ Len(Blocks(AllStmts(stmts))) = Len(Blocks(stmts))

\* the label of the variant v of the block b as a name shows it
LabelText(b, v) ==
    IF b.name = <<>> THEN JoinWith(Dot, v.name)
    ELSE <<"(">> \o b.name \o <<"=">> \o JoinWith(Dot, v.name) \o <<")">>

RECURSIVE ProductNames(_)
\* the names of the product of the blocks: the last block varies slowest,
\* each name lists the labels from the last block to the first
ProductNames(blocks) ==
    IF blocks = <<>> THEN <<<<>>>>
    ELSE LET b == blocks[Len(blocks)]
             inner == ProductNames(SubSeq(blocks, 1, Len(blocks) - 1))
         IN Flatten(List([i \in 1..Len(b.variants) |->
                List([j \in 1..Len(inner) |->
                    IF inner[j] = <<>> THEN LabelText(b, b.variants[i])
                    ELSE LabelText(b, b.variants[i]) \o Dot \o inner[j]])]))

\* the names of the dictionaries of a list, in their order
NameList(out) == List([i \in 1..Len(out) |-> DGet(out[i], PKey(kName)).s])

\* C15: for successive variants blocks at the same level with no filters,
\* get_dicts() emits one dictionary per element of the product of the
\* blocks' variants, the last-declared block varying slowest and the
\* first-declared fastest, each block in declaration order, and each name
\* lists the labels from the last-declared block to the first-declared one.
C15_ProductOrder ==
    (text # <<>> /\ filters = <<>> /\ Successive(text[1])) =>
        \A r \in 1..Len(runs) :
            /\ runs[r].err = NoError
            /\ NameList(runs[r].out) = ProductNames(Blocks(text[1]))

(***************************************************************************)
(* Substitution in an assigned value                                       *)
(***************************************************************************)
RECURSIVE Occurrences(_, _)
\* the occurrences ${name} of a value from the position start on, each as
\* <<first, last>>
Occurrences(value, start) ==
    LET m == SubstSearch(value, start)
    IN IF m[1] = 0 THEN <<>> ELSE <<m>> \o Occurrences(value, m[2] + 1)

\* the name of an occurrence
NameAt(value, m) == PKey(SubSeq(value, m[1] + 2, m[2] - 1))

\* the first occurrence whose name the dictionary lacks, one past the last
\* occurrence when there is none
FirstAbsent(value, occ, flat) ==
    LET absent == {i \in 1..Len(occ) : ~DHas(flat, NameAt(value, occ[i]))}
    IN IF absent = {} THEN Len(occ) + 1
       ELSE CHOOSE i \in absent : \A j \in absent : i <= j

\* where the text before the occurrence i begins
After(occ, i) == IF i = 1 THEN 1 ELSE occ[i - 1][2] + 1

\* the value as described: the occurrences before the first absent name
\* replaced, the text from that occurrence on copied as it stands
DescribedValue(value, flat) ==
    LET occ == Occurrences(value, 1)
        a == FirstAbsent(value, occ, flat)
    IN Flatten(List([i \in 1..(a - 1) |->
                  SubSeq(value, After(occ, i), occ[i][1] - 1)
                  \o StrOf(DGet(flat, NameAt(value, occ[i])))]))
       \o SubSeq(value, After(occ, a), Len(value))

\* C16: substitution never fails: when a ${name} of a value names a key
\* absent from the suffix-flattened dictionary, every substitution before
\* it is applied and the text from that ${name} to the end of the value is
\* copied verbatim, later occurrences included; the assignment takes place.
C16_AbortedSubstitution ==
    result # <<>> =>
        Holds(result[1], kR,
              StrV(DescribedValue(args[1], drop_suffixes(args[2], TRUE))))

\* the value ${x}${z}${x} assigned where x is 1 and z is absent
C16_AbsentThenPresent ==
    /\ result # <<>>
    /\ args[1] = <<"$", "{", "x", "}", "$", "{", "z", "}", "$", "{", "x", "}">>
    /\ DHas(args[2], kX)
    /\ Holds(result[1], kR,
             StrV(<<"1", "$", "{", "z", "}", "$", "{", "x", "}">>))

(***************************************************************************)
(* Conditional blocks                                                      *)
(***************************************************************************)
RECURSIVE Paths(_)
\* the label paths of the product of the blocks, each from the label of the
\* last block to the label of the first
Paths(blocks) ==
    IF blocks = <<>> THEN {<<>>}
    ELSE LET b == blocks[Len(blocks)]
         IN {<<Label(b.name, b.variants[i].name[1])>> \o rest :
                i \in 1..Len(b.variants),
                rest \in Paths(SubSeq(blocks, 1, Len(blocks) - 1))}

RECURSIVE Resolved(_, _)
\* the text in which every conditional block whose filter decides for its
\* inner statements on the path ctx is replaced, where it stands, by those
\* statements, and every other conditional block is taken out
Resolved(stmts, ctx) ==
    IF stmts = <<>> THEN <<>>
    ELSE LET s == Head(stmts)
             here ==
                 IF s.kind = "cond"
                 THEN IF FilterMatch(s.filt, ctx)
                      THEN Resolved(s.body, ctx) ELSE <<>>
                 ELSE IF s.kind = "ncond"
                 THEN IF ~FilterMatch(s.filt, ctx)
                      THEN Resolved(s.body, ctx) ELSE <<>>
                 ELSE IF s.kind = "variants"
                 THEN <<[s EXCEPT !.variants =
                           List([i \in 1..Len(s.variants) |->
                               [s.variants[i] EXCEPT
                                   !.body = Resolved(@, ctx)]])]>>
                 ELSE <<s>>
         IN here \o Resolved(Tail(stmts), ctx)

\* the dictionary d is one of those that the text resolved on the path ctx
\* yields
YieldedBy(d, stmts, ctx) ==
    LET ref == get_dicts(Reparsed(Resolved(stmts, ctx), <<>>), skipdups).out
    IN \E j \in 1..Len(ref) : DictEq(ref[j], d)

\* every dictionary of the run is the one that its own label path gives
\* once the conditional blocks are resolved on that path
ConditionsApplied(run, stmts) ==
    \A i \in 1..Len(run.out) :
        \E ctx \in Paths(Blocks(stmts)) :
            /\ DottedLong(ctx) = DGet(run.out[i], PKey(kName)).s
            /\ YieldedBy(run.out[i], stmts, ctx)

\* the generator m is about to apply the operations of new_content at a leaf
AtLeaf(m) ==
    /\ ~Done(m)
    /\ Top(m).kind = "P"
    /\ Top(m).pc = "loop"
    /\ m.h[Top(m).node].children = <<>>

\* C17: the inner operations of a conditional block F: are applied to a
\* variant exactly when F matches the full label path of the variant, those
\* of a block !F: exactly when F does not match it, wherever the block is
\* declared, and the list of operations applied at a leaf holds no filter
\* and no conditional block.
C17_ConditionsResolved ==
    /\ text # <<>> =>
          \A r \in 1..Len(runs) : ConditionsApplied(runs[r], text[1])
    /\ (gen # <<>> /\ AtLeaf(gen[1])) =>
          \A i \in 1..Len(Top(gen[1]).new_content) :
              IsOperator(Top(gen[1]).new_content[i].obj)

\* the blocks a, q: and !p.b: enumerated: the variant p.a has x and y, the
\* variant p.b has neither
C17_AppliedAndNot ==
    /\ runs # <<>>
    /\ text[1] = TxCondLast
    /\ Len(runs[1].out) = 4
    /\ DHas(runs[1].out[1], kX) /\ DHas(runs[1].out[1], kY)
    /\ ~DHas(runs[1].out[2], kX) /\ ~DHas(runs[1].out[2], kY)

(***************************************************************************)
(* The default variants named in the header of a block                     *)
(***************************************************************************)
\* the entry names a variant of the block
NamesVariant(entry, block) ==
    \E i \in 1..Len(block.variants) : entry = RawName(block.variants[i].name)

\* the header of the first block of the text has an entry that names none
\* of its variants
MissingDefault(stmts) ==
    /\ Blocks(stmts) # <<>>
    /\ \E i \in 1..Len(Blocks(stmts)[1].meta) :
          ~NamesVariant(Blocks(stmts)[1].meta[i], Blocks(stmts)[1])

\* C18: when the header of a variants block has [default=NAME] entries and
\* some NAME equals no variant name of the block, parsing raises ParserError
\* ("Missing default variant"): it never completes silently.
C18_MissingDefaultRaises ==
    (text # <<>> /\ MissingDefault(text[1])) =>
        parser.err = "Missing default variant"

(***************************************************************************)
(* The keys of the yielded dictionaries                                    *)
(***************************************************************************)
\* C19: every dictionary yielded by any get_dicts() call has string keys
\* only: the suffixed keys are flattened before a dictionary is yielded,
\* whatever get_dicts() calls were made before.
C19_StringKeys ==
    \A r \in 1..Len(runs) : \A i \in 1..Len(runs[r].out) :
        \A k \in 1..Len(runs[r].out[i]) : ~runs[r].out[i][k].k.tup

(***************************************************************************)
(* The order of the operations at a leaf                                   *)
(***************************************************************************)
\* the labels that the variants of the text carry
LabelsOf(stmts) ==
    LET bs == Blocks(AllStmts(stmts))
    IN UNION {UNION {{Label(bs[i].name, bs[i].variants[j].name[k]) :
                         k \in 1..Len(bs[i].variants[j].name)} :
                     j \in 1..Len(bs[i].variants)} :
              i \in 1..Len(bs)}

\* the label path that the name of a leaf spells
CtxOf(stmts, name) ==
    IF name = <<>> THEN <<>>
    ELSE LET segs == SplitDots(name)
         IN List([i \in 1..Len(segs) |->
                CHOOSE l \in LabelsOf(stmts) : LongName(l) = segs[i]])

\* the variant v of the block b is on the path ctx
OnPath(b, v, ctx) ==
    \A k \in 1..Len(v.name) : InSeq(Label(b.name, v.name[k]), ctx)

RECURSIVE Written(_, _)
RECURSIVE InOrder(_, _)
\* the operations that the statements of a block give on the path ctx, in
\* the order in which the statements are written: an assignment gives
\* itself, a variants block gives the block of its variant on the path, after
\* the assignment of the axis when the block has one, a conditional block
\* gives its own block when its filter decides so
Written(stmts, ctx) ==
    IF stmts = <<>> THEN <<>>
    ELSE LET s == Head(stmts)
             here ==
                 CASE s.kind = "op" -> <<Obj(s.cls, s.name, s.value)>>
                   [] s.kind = "del" -> <<Obj("LDel", s.name, <<>>)>>
                   [] s.kind = "cond" ->
                        IF FilterMatch(s.filt, ctx) THEN InOrder(s.body, ctx)
                        ELSE <<>>
                   [] s.kind = "ncond" ->
                        IF ~FilterMatch(s.filt, ctx) THEN InOrder(s.body, ctx)
                        ELSE <<>>
                   [] s.kind = "variants" ->
                        Flatten(List([j \in 1..Len(s.variants) |->
                            IF ~OnPath(s, s.variants[j], ctx) THEN <<>>
                            ELSE (IF s.name = <<>> THEN <<>>
                                  ELSE <<Obj("LSet", s.name,
                                             JoinWith(Dot, s.variants[j].name))>>)
                                 \o InOrder(s.variants[j].body, ctx)]))
                   [] OTHER -> <<>>
         IN here \o Written(Tail(stmts), ctx)

\* the operations of a block on the path ctx: those of its statements as
\* they are written, then the suffix of the block, the last one written
InOrder(stmts, ctx) ==
    LET tags == SelectSeq(stmts, LAMBDA s : s.kind = "suffix")
    IN Written(stmts, ctx)
       \o (IF tags = <<>> THEN <<>>
           ELSE <<Obj("Suffix", <<>>, tags[Len(tags)].value)>>)

RECURSIVE ApplyEach(_, _)
\* the operations applied to d one after the other
ApplyEach(ops, d) ==
    IF ops = <<>> THEN d
    ELSE ApplyEach(Tail(ops), ApplyToDict(Head(ops), d))

\* the keys of the user in the dictionary d once its suffixes are flattened
Flattened(d) == UserPart(drop_suffixes(d, skipdups))

\* the dictionary that the leaf d0 becomes when the operations of the text
\* are applied to it in the order of the text
InTextOrder(stmts, d0) ==
    apply_suffix_bounds(
        ApplyEach(InOrder(stmts, CtxOf(stmts, DGet(d0, PKey(kName)).s)), d0))

\* every dictionary of the run is its leaf after the operations of the text
\* in the order of the text
LeafOrder(run, stmts) ==
    /\ Len(run.out) = Len(run.leaves)
    /\ \A i \in 1..Len(run.out) :
          /\ ~InTextOrder(stmts, run.leaves[i]).err
          /\ DictEq(Flattened(run.out[i]),
                    Flattened(InTextOrder(stmts, run.leaves[i]).d))

\* C20: at a leaf the operations are applied in the order of the text: what
\* is written before the first variants block, then the block of the variant
\* of that block, what is written between the blocks, the block of the
\* variant of the next block and so on outward, each block in the order of
\* its lines with its suffix last and with the inner operations of a
\* conditional block that applies at the place of that block; so a statement
\* written after a variants block is applied after those of its variants.
C20_LeafOrder ==
    text # <<>> =>
        \A r \in 1..Len(runs) :
            runs[r].err = NoError => LeafOrder(runs[r], text[1])

\* foo ~= qux after the block whose variant a sets foo = bar: a keeps bar,
\* b takes qux
C20_LazyAfterBlock ==
    /\ runs # <<>>
    /\ text[1] = TxLazy
    /\ Len(runs[1].out) = 2
    /\ Holds(runs[1].out[1], <<"f", "o", "o">>, StrV(<<"b", "a", "r">>))
    /\ Holds(runs[1].out[2], <<"f", "o", "o">>, StrV(<<"q", "u", "x">>))

(***************************************************************************)
(* The suffix of a block                                                   *)
(***************************************************************************)
RECURSIVE ContentsIn(_)
\* a content and the contents of the conditional blocks that it holds
ContentsIn(content) ==
    <<content>>
    \o Flatten(List([i \in 1..Len(content) |->
           IF content[i].obj.cls \in {"Condition", "NegativeCondition"}
           THEN ContentsIn(content[i].obj.content) ELSE <<>>]))

\* the contents that the tree holds: one for each node and one for each
\* conditional block
AllContents(h) == Flatten(List([n \in 1..Len(h) |-> ContentsIn(h[n].content)]))

RECURSIVE BlockList(_)
\* the blocks of a text: the text, the block of each variant and the block
\* of each conditional block
BlockList(stmts) ==
    <<stmts>>
    \o Flatten(List([i \in 1..Len(stmts) |->
           BlockList(stmts[i].body)
           \o Flatten(List([j \in 1..Len(stmts[i].variants) |->
                  BlockList(stmts[i].variants[j].body)]))]))

\* the suffix statements of a block
Tags(stmts) == SelectSeq(stmts, LAMBDA s : s.kind = "suffix")

\* where the suffix operations of a content stand
SuffixAt(content) == {i \in 1..Len(content) : content[i].obj.cls = "Suffix"}

\* how many blocks of the text have tag as their last suffix statement
BlocksTagged(stmts, tag) ==
    Cardinality({b \in 1..Len(BlockList(stmts)) :
        LET t == Tags(BlockList(stmts)[b])
        IN t # <<>> /\ t[Len(t)].value = tag})

\* how many suffix operations of the tree carry tag
SuffixesTagged(h, tag) ==
    LET cs == AllContents(h)
    IN Cardinality(UNION {{<<c, i>> : i \in {j \in SuffixAt(cs[c]) :
                                                 cs[c][j].obj.value = tag}} :
                          c \in 1..Len(cs)})

\* the operations of a content
Operators(content) == SelectSeq(content, LAMBDA t : IsOperator(t.obj))

\* the keys that the operations of a content assign: those of its
\* assignments and those of its pre_dict operations
AssignedBy(content) ==
    {content[i].obj.name : i \in {j \in 1..Len(content) : content[j].obj.cls = "LSet"}}
    \cup UNION {{content[i].obj.pd[k].k.p[1] : k \in 1..Len(content[i].obj.pd)} :
                i \in {j \in 1..Len(content) : content[j].obj.cls = "LApplyPreDict"}}

\* in the dictionary d every key of the user ends with tag, and every key
\* of names is there
AllTagged(d, names, tag) ==
    /\ \A i \in 1..Len(d) :
          IsReserved(d[i].k) \/ (d[i].k.tup /\ d[i].k.p[Len(d[i].k.p)] = tag)
    /\ \A n \in names :
          n \in reserved_keys \/ \E i \in 1..Len(d) : d[i].k.tup /\ d[i].k.p[1] = n

\* the suffix operation at i of the content tags every key that the
\* operations of the content assign to the dictionary of a leaf
TagsItsBlock(content, i) ==
    AllTagged(ApplyContent(Operators(SubSeq(content, 1, i)), 1,
                           LeafDict(<<>>, <<>>, <<>>)),
              AssignedBy(content), content[i].obj.value)

\* the tree holds one suffix operation for each block with suffix
\* statements, that of its last suffix statement, and each of them tags the
\* keys of its block
OnePerBlock(h, stmts) ==
    /\ \A tag \in {TagA, TagB} : SuffixesTagged(h, tag) = BlocksTagged(stmts, tag)
    /\ \A c \in 1..Len(AllContents(h)) :
          /\ Cardinality(SuffixAt(AllContents(h)[c])) <= 1
          /\ \A i \in SuffixAt(AllContents(h)[c]) : TagsItsBlock(AllContents(h)[c], i)

\* C21 as the specification states it: the suffix operation of a block is
\* the last operation of the content of its node
C21_SuffixLast ==
    (text # <<>> /\ parser.err = NoError) =>
        /\ OnePerBlock(parser.h, text[1])
        /\ \A c \in 1..Len(AllContents(parser.h)) :
              \A i \in SuffixAt(AllContents(parser.h)[c]) :
                  i = Len(AllContents(parser.h)[c])

\* C21: for every block with suffix statements the tree holds exactly one
\* suffix operation, that of the last suffix statement of the block; it
\* comes after every operation that the statements of the block give, and
\* in the node of a variant only the two update_file_map operations of the
\* variant follow it; every key assigned in the block is tagged, those
\* assigned after the suffix statement included.
C21_SuffixAfterBlock ==
    (text # <<>> /\ parser.err = NoError) =>
        /\ OnePerBlock(parser.h, text[1])
        /\ \A c \in 1..Len(AllContents(parser.h)) :
              \A i \in SuffixAt(AllContents(parser.h)[c]) :
                  \A j \in (i + 1)..Len(AllContents(parser.h)[c]) :
                      AllContents(parser.h)[c][j].obj.cls = "LUpdateFileMap"

\* the variant a holds suffix _a, k = 1, suffix _b: its node holds the one
\* operation suffix _b before its two update_file_map operations, and k is
\* yielded as k_b when the duplicates are kept
C21_LastSuffixWins ==
    /\ text # <<>>
    /\ text[1] = <<TwoVariants(<<SSuffix(TagA), SOp("LSet", <<"k">>, <<"1">>),
                                SSuffix(TagB)>>)>>
    /\ \E n \in 1..Len(parser.h) :
          /\ Len(parser.h[n].content) = 4
          /\ parser.h[n].content[2].obj = Obj("Suffix", <<>>, TagB)
          /\ SuffixesTagged(parser.h, TagA) = 0
    /\ runs # <<>> /\ ~skipdups
    /\ Holds(runs[1].out[1], <<"k", "_", "b">>, StrV(<<"1">>))

(***************************************************************************)
(* The bounds of a key                                                     *)
(***************************************************************************)
\* the integer that the key name holds in d
SizeOf(d, name) == NatOf(DGet(d, PKey(name)).s)

\* the key name is in d
Has(d, name) == DHas(d, PKey(name))

\* the bounds that d gives for the key k do not contradict one another:
\* k_min <= k_fixed <= k_max for those that are there
Consistent(d, k) ==
    /\ (Has(d, k \o sMin) /\ Has(d, k \o sMax)) =>
           SizeOf(d, k \o sMin) <= SizeOf(d, k \o sMax)
    /\ (Has(d, k \o sMin) /\ Has(d, k \o sFixed)) =>
           SizeOf(d, k \o sMin) <= SizeOf(d, k \o sFixed)
    /\ (Has(d, k \o sFixed) /\ Has(d, k \o sMax)) =>
           SizeOf(d, k \o sFixed) <= SizeOf(d, k \o sMax)

\* the value of k in d is within the bounds k_max and k_min of d
Within(d, k) ==
    /\ Has(d, k \o sMax) => SizeOf(d, k) <= SizeOf(d, k \o sMax)
    /\ Has(d, k \o sMin) => SizeOf(d, k) >= SizeOf(d, k \o sMin)

\* what the specification says of the key k once d has become r
BoundsKept(d, r, k) ==
    /\ Has(d, k \o sFixed) =>
           Has(r, k) /\ DGet(r, PKey(k)) = DGet(r, PKey(k \o sFixed))
    /\ (Has(d, k \o sMax) /\ Has(d, k)) =>
           SizeOf(r, k) <= SizeOf(r, k \o sMax)
    /\ (Has(d, k \o sMin) /\ Has(d, k)) =>
           SizeOf(r, k) >= SizeOf(r, k \o sMin)
    /\ (Has(d, k) /\ ~Has(d, k \o sFixed) /\ Within(d, k)) =>
           DGet(r, PKey(k)) = DGet(d, PKey(k))
    /\ \A b \in {sMax, sMin, sFixed} :
           Has(d, k \o b) => DGet(r, PKey(k \o b)) = DGet(d, PKey(k \o b))

\* C22: after apply_suffix_bounds on a dictionary of integer sizes whose
\* bounds do not contradict one another, k equals k_fixed when k_fixed is
\* there, k is not greater than k_max and not smaller than k_min when k was
\* there with them, and a key within its bounds and the keys without a
\* _max, _min or _fixed companion are unchanged.
C22_BoundsKept ==
    (result # <<>> /\ Consistent(args[1], kKey)) =>
        /\ ~result[1].err
        /\ BoundsKept(args[1], result[1].d, kKey)

(***************************************************************************)
(* The content that the parser builds for a block of assignments           *)
(***************************************************************************)
\* the dictionaries that a block inherits from other nodes: that of a leaf
\* as it is synthesised, and the same with the key x or with the key x_s
Inherited ==
    {LeafDict(<<>>, <<>>, <<>>),
     Append(LeafDict(<<>>, <<>>, <<>>), [k |-> PKey(<<"x">>), v |-> StrV(<<"0">>)]),
     Append(LeafDict(<<>>, <<>>, <<>>),
            [k |-> TKey(<<<<"x">>, <<"_", "s">>>>), v |-> StrV(<<"0">>)])}

\* the content of the node gives on d0 what the statements give when each
\* is applied as its own operation in the order of the text
SameAsWritten(content, stmts, d0) ==
    DictEq(ApplyContent(content, 1, d0), ApplyEach(Written(stmts, <<>>), d0))

\* C23: the content that the parser builds for a block of assignment
\* statements, with its pre_dict operations, gives on every inherited
\* dictionary the dictionary that the statements give when each of them is
\* applied as its own operation in the order of the text.
C23_PreDictTransparent ==
    (text # <<>> /\ parser.err = NoError) =>
        \A d0 \in Inherited :
            SameAsWritten(parser.h[parser.node].content, text[1], d0)

(***************************************************************************)
(* The filters that parse_filter returns                                   *)
(***************************************************************************)
\* a list of disjuncts, each a non-empty list of conjuncts, each a
\* non-empty sequence of labels
WellFormed(filt) ==
    \A a \in 1..Len(filt) :
        /\ filt[a] # <<>>
        /\ \A c \in 1..Len(filt[a]) : filt[a][c] # <<>>

\* the texts of the labels of a filter, the axis of a label before its name
LabelTexts(filt) ==
    Flatten(List([a \in 1..Len(filt) |->
        Flatten(List([c \in 1..Len(filt[a]) |->
            Flatten(List([l \in 1..Len(filt[a][c]) |->
                IF filt[a][c][l].var = <<>> THEN <<filt[a][c][l].name>>
                ELSE <<filt[a][c][l].var, filt[a][c][l].name>>]))]))]))

\* the texts of the identifiers of a list of tokens
IdentTexts(toks) ==
    LET ids == SelectSeq(toks, LAMBDA t : t.t = "LIdentifier")
    IN List([i \in 1..Len(ids) |-> ids[i].s])

\* three dots in a row, a dot directly before or after a "," or a blank, or
\* an identifier directly after a ")"
Malformed(toks) ==
    \/ \E i \in 1..(Len(toks) - 2) :
          toks[i].t = "LDot" /\ toks[i + 1].t = "LDot" /\ toks[i + 2].t = "LDot"
    \/ \E i \in 1..(Len(toks) - 1) :
          \/ toks[i].t = "LDot" /\ toks[i + 1].t \in {"LComa", "LWhite"}
          \/ toks[i].t \in {"LComa", "LWhite"} /\ toks[i + 1].t = "LDot"
          \/ toks[i].t = "LRRBracket" /\ toks[i + 1].t = "LIdentifier"

\* C24: parse_filter raises ParserError or returns a list of disjuncts, each
\* a non-empty list of conjuncts, each a non-empty sequence of labels in the
\* order of the tokens; three dots in a row, a dot next to a "," or a blank
\* and an identifier directly after a ")" raise ParserError.
C24_WellFormedOrError ==
    result # <<>> =>
        /\ \/ result[1].err = ParserError
           \/ /\ result[1].err = NoError
              /\ WellFormed(result[1].filt)
              /\ LabelTexts(result[1].filt) = IdentTexts(args[1])
        /\ Malformed(args[1]) => result[1].err = ParserError

(***************************************************************************)
(* What a filter answers                                                   *)
(***************************************************************************)
\* requires_action and is_irrelevant are not both true, and exactly one of
\* them is true when there is no descendant label
OneAnswer(a, labels) ==
    /\ ~(a.requires_action /\ a.is_irrelevant)
    /\ labels = {} => (a.requires_action \/ a.is_irrelevant)

\* C25: for every filter, context and set of descendant labels, match
\* implies might_match; for an Only filter and for a No filter
\* requires_action and is_irrelevant are never both true, and when the set
\* of descendant labels is empty exactly one of the two is true.
C25_MatchImpliesMightMatch ==
    result # <<>> =>
        /\ result[1].match => result[1].might_match
        /\ OneAnswer(result[1].only, args[3])
        /\ OneAnswer(result[1].no, args[3])

\* the filter a.b on the context a.b at a leaf: it matches, the Only filter
\* is irrelevant and the No filter requires action
C25_MatchedAtLeaf ==
    /\ result # <<>>
    /\ args[1] = <<<<<<Label(<<>>, <<"a">>), Label(<<>>, <<"b">>)>>>>>>
    /\ args[2] = <<Label(<<>>, <<"a">>), Label(<<>>, <<"b">>)>>
    /\ args[3] = {}
    /\ result[1].match /\ result[1].might_match
    /\ result[1].only.is_irrelevant /\ ~result[1].only.requires_action
    /\ result[1].no.requires_action /\ ~result[1].no.is_irrelevant

(***************************************************************************)
(* The labels of a node and the labels below it                            *)
(***************************************************************************)
\* the children of node n
ChildrenOf(h, n) == SetOf(h[n].children)

\* the nodes reached from the nodes of S by following children, S included
RECURSIVE ReachedFrom(_, _)
ReachedFrom(h, S) ==
    LET more == S \cup UNION {ChildrenOf(h, n) : n \in S}
    IN IF more = S THEN S ELSE ReachedFrom(h, more)

\* the nodes below node n
BelowNode(h, n) == ReachedFrom(h, ChildrenOf(h, n))

\* the labels node c brings: its labels and the labels of its name
Brings(h, c) == h[c].labels \cup SetOf(h[c].name)

\* every label that the nodes of S bring is in n.labels
Covers(h, n, S) ==
    \A c \in S : \A l \in Brings(h, c) : InLabels(l, h[n].labels)

\* C26: after any sequence of parse_string, only_filter and no_filter
\* calls, for every node n of the tree and every child c of n the labels of
\* c and the labels of c's name are in n.labels, and so is every label of a
\* node below n.
C26_LabelsCoverBelow ==
    \A n \in ReachedFrom(parser.h, {parser.node}) :
        /\ Covers(parser.h, n, ChildrenOf(parser.h, n))
        /\ Covers(parser.h, n, BelowNode(parser.h, n))

\* two texts and a filter were given, and the tree has a named node with a
\* named node below it
C26_NamedBelowNamed ==
    /\ parser.err = NoError
    /\ Len(text) = 2 /\ Len(filters) = 1
    /\ \E n \in ReachedFrom(parser.h, {parser.node}) :
          /\ parser.h[n].name # <<>>
          /\ \E c \in BelowNode(parser.h, n) :
                /\ parser.h[c].name # <<>>
                /\ ~InLabels(parser.h[c].name[1], SetOf(parser.h[n].name))

(***************************************************************************)
(* The failed cases a node keeps                                           *)
(***************************************************************************)
\* the nodes as the running generator has them, or as the parser has them
Heap == IF gen # <<>> THEN gen[1].h ELSE parser.h

\* how many visits the running generator cut short on a failed case
Hits == IF gen # <<>> THEN gen[1].hits ELSE 0

\* the sequence s without its element at position i
Without(s, i) == SubSeq(s, 1, i - 1) \o SubSeq(s, i + 1, Len(s))

\* no node holds more than five failed cases
AtMostFive == \A n \in 1..Len(Heap) : Len(Heap[n].failed_cases) <= 5

\* a record of before is at the front of after, the others keep their order
HitMoved(before, after) ==
    \E i \in 1..Len(before) : after = <<before[i]>> \o Without(before, i)

\* after has a new record at the front, then the records of before, without
\* the last of them when before holds five
Recorded(before, after) ==
    /\ after # <<>>
    /\ after = <<after[1]>> \o (IF Len(before) = 5 THEN SubSeq(before, 1, 4)
                                ELSE before)

\* what a step does to the failed cases of the nodes
FailedCasesStep ==
    \A n \in 1..Len(Heap) :
        n <= Len(Heap') =>
            \/ Heap'[n].failed_cases = Heap[n].failed_cases
            \/ IF gen # <<>> /\ gen' # <<>> /\ Hits' = Hits + 1
               THEN HitMoved(Heap[n].failed_cases, Heap'[n].failed_cases)
               ELSE Recorded(Heap[n].failed_cases, Heap'[n].failed_cases)

\* C27: after any sequence of enumerations every node's failed_cases holds
\* at most 5 records; a failure recorded while 5 are stored is placed at
\* the front and the record at the back is discarded; a memo hit moves the
\* hit record to the front and leaves the number of records as it was.
C27_FailedCasesBounded == [][AtMostFive' /\ FailedCasesStep]_vars

\* the six failures of TxSixFail were recorded: the node a holds five
\* records, the one of p6 at the front and none of p1
C27_SixthEvictsFirst ==
    /\ text = <<TxSixFail>> /\ Len(runs) = 1
    /\ \E n \in 1..Len(parser.h) :
          LET fc == parser.h[n].failed_cases
          IN /\ Len(fc) = 5
             /\ fc[1].ctx[1] = Label(<<>>, <<"p", "6">>)
             /\ \A i \in 1..5 : fc[i].ctx[1] # Label(<<>>, <<"p", "1">>)

(***************************************************************************)
(* The tree before and after an enumeration                                *)
(***************************************************************************)
\* the node with its failed cases left out
Shape(node) == [node EXCEPT !.failed_cases = <<>>]

\* the nodes of h2 are those of h1, each with the content, children, name,
\* labels and other fields it has in h1, the failed cases apart
SameTree(h1, h2) ==
    /\ Len(h1) = Len(h2)
    /\ \A n \in 1..Len(h1) : Shape(h1[n]) = Shape(h2[n])

\* the parser p2 is the parser p1 but for the failed cases of its nodes and
\* for its parent_generator flag
SameParser(p1, p2) ==
    /\ SameTree(p1.h, p2.h)
    /\ [p2 EXCEPT !.h = p1.h, !.parent_generator = p1.parent_generator] = p1

\* the generator of get_dicts() has just been consumed to exhaustion
Exhausted ==
    /\ Len(runs') = Len(runs) + 1
    /\ runs'[Len(runs')].err = NoError

\* C28: once a get_dicts() generator has been consumed to exhaustion, every
\* node's content, children, name and labels are what they were before the
\* enumeration started, nodes with join statements included; only
\* failed_cases and the parent_generator flag may differ.
C28_TreeKept ==
    [][Exhausted => SameParser(parser, parser')]_vars

\* an enumeration of a tree whose root holds a join of two clauses has been
\* consumed and yielded a dictionary
C28_JoinConsumed ==
    /\ Len(runs) >= 1
    /\ runs[1].err = NoError /\ runs[1].joined /\ runs[1].out # <<>>
    /\ \E i \in 1..Len(parser.h[parser.node].content) :
          /\ parser.h[parser.node].content[i].obj.cls = "JoinFilter"
          /\ Len(parser.h[parser.node].content[i].obj.filt) >= 2

(***************************************************************************)
(* The lines a StrReader returns                                           *)
(***************************************************************************)
\* the text holds nothing but white space
BlankText(s) == \A i \in 1..Len(s) : s[i] \in {" ", "\t", "\n"}

\* the line that the first k calls left pushed back, <<>> if none: a
\* get_next_line takes what is pending, a set_next_line of a blank text
\* leaves what is pending, any other set_next_line replaces it
RECURSIVE PendingAfter(_, _)
PendingAfter(calls, k) ==
    IF k = 0 \/ calls[k].op = "get_next_line" THEN <<>>
    ELSE IF BlankText(calls[k].line) THEN PendingAfter(calls, k - 1)
    ELSE <<calls[k]>>

\* the line that the last call pushed back, blank or not, <<>> if the last
\* call was no set_next_line
PushedLast(calls) ==
    IF calls # <<>> /\ calls[Len(calls)].op = "set_next_line"
    THEN <<calls[Len(calls)]>> ELSE <<>>

\* get_next_line returns the pushed line p and leaves the cursor
ReturnsPushed(p, ret) ==
    /\ ret = Line(<<Strip(p.line)>>, p.indent, p.linenum)
    /\ reader'.line_index = reader.line_index

\* get_next_line(prev_indent) with nothing pushed back: the next stored line
\* and the cursor one further, or (None, indent, linenum) and the cursor
\* left, or (None, -1, -1) at the end
ReturnsStored(prev_indent, ret) ==
    LET cursor == reader.line_index
    IN IF cursor >= Len(reader.lines)
       THEN ret = NoLine /\ reader'.line_index = cursor
       ELSE IF reader.lines[cursor + 1].indent > prev_indent
       THEN ret = reader.lines[cursor + 1] /\ reader'.line_index = cursor + 1
       ELSE /\ ret = Line(<<>>, reader.lines[cursor + 1].indent,
                          reader.lines[cursor + 1].linenum)
            /\ reader'.line_index = cursor

\* the lines among the first k results that were no pushed-back lines
RECURSIVE FromSource(_, _, _)
FromSource(calls, rets, k) ==
    IF k = 0 THEN <<>>
    ELSE LET before == Len(SelectSeq(SubSeq(calls, 1, k - 1),
                                     LAMBDA c : c.op = "get_next_line"))
         IN IF calls[k].op # "get_next_line" THEN FromSource(calls, rets, k - 1)
            ELSE IF PendingAfter(calls, k - 1) # <<>> \/ rets[before + 1].line = <<>>
            THEN FromSource(calls, rets, k - 1)
            ELSE Append(FromSource(calls, rets, k - 1), rets[before + 1])

\* the lines returned so far are the stored lines up to the cursor, in
\* their order, each once
InSourceOrder(calls, rets, r) ==
    FromSource(calls, rets, Len(calls)) = SubSeq(r.lines, 1, r.line_index)

\* a call of the reader has been made
ReaderCalled == reader # <<>> /\ Len(args') = Len(args) + 1

\* what the call that was made did, pending being what it found pushed back
ReaderStep(pending) ==
    LET call == args'[Len(args')]
    IN /\ reader'.lines = reader.lines
       /\ IF call.op = "set_next_line"
          THEN reader'.line_index = reader.line_index /\ result' = result
          ELSE /\ Len(result') = Len(result) + 1
               /\ IF pending # <<>>
                  THEN ReturnsPushed(pending[1], result'[Len(result')])
                  ELSE ReturnsStored(call.prev_indent, result'[Len(result')])
       /\ InSourceOrder(args', result', reader')

StartOf(seq, toks) ==
    \A i \in 1..Len(seq) : i <= Len(toks) => seq[i] = toks[i]

\* the source has a first line and its indentation is 0
FirstLineAtZero == reader.lines # <<>> /\ reader.lines[1].indent = 0

\* C30: a newly constructed Lexer has prev_indent equal to -1, so that,
\* with no set_prev_indent call, the first token it produces for a source
\* whose first line has indentation 0 is Indent, followed by the tokens of
\* that line.
C30_FirstTokenIndent ==
    (lexer # <<>> /\ args = <<>>) =>
        /\ lexer[1].prev_indent = -1
        /\ (FirstLineAtZero /\ result # <<>>) =>
              /\ result[1] = LIndent(0)
              /\ StartOf(Tail(result), match(reader.lines[1].line[1], FALSE).toks)

====
